---- MODULE Spec2Model ----
(***************************************************************************)
(* Research_Agent: the ingestion workflow, the research workflow, the      *)
(* reranking engine and the merge combiner, as state machines.             *)
(*                                                                         *)
(* Scores are integers in thousandths (1000 stands for 1.0).               *)
(* progress_percent is an integer in units of 1/PScale percent.            *)
(***************************************************************************)
EXTENDS Integers, Sequences, FiniteSets, TLC

(***************************************************************************)
(* Bounds                                                                  *)
(***************************************************************************)
MaxResults == 2
MaxChunks == 2
MaxCands == 2
MaxRetrieved == 2
MaxMcp == 2
MaxDiverse == 3
MaxLocal == 5
MaxTitle == 4
MaxItems == 4
MaxStarts == 2

(***************************************************************************)
(* Generic helpers                                                         *)
(***************************************************************************)
None == "None"

RECURSIVE Fact(_)
Fact(n) == IF n <= 1 THEN 1 ELSE n * Fact(n - 1)

Min(a, b) == IF a <= b THEN a ELSE b

Max(a, b) == IF a >= b THEN a ELSE b

Range(s) == {s[i] : i \in 1..Len(s)}

SeqsUpTo(S, n) == UNION {[1..k -> S] : k \in 0..n}

\* one percent of progress
PScale == Fact(MaxResults)

(***************************************************************************)
(* _title_fingerprint: titles are sequences of one-character strings       *)
(***************************************************************************)
Upper == [A |-> "a", B |-> "b", T |-> "t"]

LowerChar(c) == IF c \in DOMAIN Upper THEN Upper[c] ELSE c

AlnumLower == {"a", "b", "c", "e", "h", "n", "t", "1"}

WhiteSpace == {" "}

stops == {<<"t", "h", "e">>, <<"a">>, <<"a", "n">>, <<"o", "f">>,
          <<"a", "n", "d">>, <<"f", "o", "r">>, <<"o", "n">>, <<"i", "n">>,
          <<"t", "o">>, <<"w", "i", "t", "h">>}

\* t.lower() followed by re.sub(r"[^a-z0-9\s]", " ", t)
NormChars(t) ==
    [i \in 1..Len(t) |->
        LET c == LowerChar(t[i])
        IN IF c \in AlnumLower \cup WhiteSpace THEN c ELSE " "]

\* str.split(): the maximal runs of non-whitespace characters, in order
RECURSIVE SplitFrom(_, _, _)
SplitFrom(t, i, cur) ==
    IF i > Len(t)
    THEN IF cur = <<>> THEN <<>> ELSE <<cur>>
    ELSE IF t[i] \in WhiteSpace
         THEN IF cur = <<>>
              THEN SplitFrom(t, i + 1, <<>>)
              ELSE <<cur>> \o SplitFrom(t, i + 1, <<>>)
         ELSE SplitFrom(t, i + 1, Append(cur, t[i]))

Split(t) == SplitFrom(t, 1, <<>>)

\* " ".join(toks)
RECURSIVE Join(_)
Join(toks) ==
    IF toks = <<>> THEN <<>>
    ELSE IF Len(toks) = 1 THEN toks[1]
    ELSE toks[1] \o <<" ">> \o Join(Tail(toks))

\* variant: the stop words are filtered from the raw tokens, before the
\* title is lower-cased and cleaned
_title_fingerprint_filter_first(title) ==
    NormChars(Join(SelectSeq(Split(title), LAMBDA w : w \notin stops)))

_title_fingerprint(title) ==
    LET toks == Split(NormChars(title))
    IN Join(SelectSeq(toks, LAMBDA w : w \notin stops))

(***************************************************************************)
(* The papers arXiv can return and the rows the repository can hold        *)
(***************************************************************************)
Papers ==
    { [arxiv_id |-> "2401.1", title |-> <<"A", "b">>],
      [arxiv_id |-> "2401.2", title |-> <<"t", "h", "e", " ", "a", "b", "!">>],
      [arxiv_id |-> "2401.3", title |-> <<"-">>] }

Row(p) == [arxiv_id |-> p.arxiv_id, fingerprint |-> _title_fingerprint(p.title)]

StoredRows ==
    { Row([arxiv_id |-> "2401.1", title |-> <<"A", "b">>]),
      Row([arxiv_id |-> "2312.9", title |-> <<"c">>]),
      Row([arxiv_id |-> "2312.8", title |-> <<"!">>]) }

IngestionStatus == {"IDLE", "SEARCHING", "CHECKING_DUPLICATES", "INGESTING",
                    "COMPLETED", "ERROR"}

VARIABLES
    ingestion_state,   \* the IngestionState threaded through the graph
    i_node,            \* the node the ingestion graph runs next
    i_trace,           \* nodes of the ingestion graph executed so far
    search_exhausted,  \* the arXiv iterator gave up after its retries
    items,             \* ingest_pdfs: the downloaded items
    idx,               \* ingest_pdfs: loop index (0-based, next item)
    ingested,          \* ingest_pdfs: local counter
    failed,            \* ingest_pdfs: local counter
    papers_table,      \* rows of the papers table (PostgresRepository)
    f_call,            \* a call of a ranker method: its name and arguments
    f_result,          \* what the call returned or raised
    research_state,    \* the ResearchState threaded through the graph
    r_todo,            \* nodes of the current step still to run
    r_next,            \* nodes triggered for the next step
    r_runs,            \* how many times each node has run
    r_failed,          \* the except branch of some node has run
    settings,          \* backend.config.settings (reranking part)
    ranker_loaded,     \* the ranker singleton has its cross-encoder model
    g_pc,              \* invoke_mcp_node: the statement it is at
    g_state,           \* invoke_mcp_node: the ResearchState it was given
    session,           \* MCPToolHandler.session
    tool_result,       \* the MCPToolResult the invoked tool returned
    a_pc,              \* _iter_search_with_backoff: the statement it is at
    attempt,           \* _iter_search_with_backoff: local counter
    a_calls,           \* number of search.results() iterations started
    a_yielded,         \* number of results yielded to the consumer
    a_err,             \* the error search.results() raised last
    c_conn,            \* the WebSocket connection of a consumer
    c_tasks,           \* the tasks created on the connection, in order
    ingestion_task,    \* self.ingestion_task: index into c_tasks, 0 for None
    c_sent,            \* the message sent to the client last
    c_event            \* the client event handled last

ivars == <<ingestion_state, i_node, i_trace, search_exhausted, items, idx,
           ingested, failed, papers_table>>

fvars == <<f_call, f_result>>

rvars == <<research_state, r_todo, r_next, r_runs, r_failed, settings,
           ranker_loaded>>

gvars == <<g_pc, g_state, session, tool_result>>

avars == <<a_pc, attempt, a_calls, a_yielded, a_err>>

cvars == <<c_conn, c_tasks, ingestion_task, c_sent, c_event>>

vars == <<ingestion_state, i_node, i_trace, search_exhausted, items, idx,
          ingested, failed, papers_table, f_call, f_result,
          research_state, r_todo, r_next, r_runs, r_failed, settings,
          ranker_loaded, g_pc, g_state, session, tool_result,
          a_pc, attempt, a_calls, a_yielded, a_err,
          c_conn, c_tasks, ingestion_task, c_sent, c_event>>

(***************************************************************************)
(* IngestionState at construction                                          *)
(***************************************************************************)
IngestionState(mr) ==
    [ max_results |-> mr,
      status |-> "IDLE",
      docs_found |-> 0,
      docs_existing |-> 0,
      docs_new |-> 0,
      docs_ingested |-> 0,
      docs_failed |-> 0,
      progress_percent |-> 0,
      arxiv_results |-> <<>>,
      processed_pdfs |-> <<>>,
      failed_pdfs |-> <<>>,
      completed_at |-> None,
      error |-> None ]

\* no ranker call in progress
NoResult == [kind |-> "none"]

NoCall == f_call = [op |-> "none"] /\ f_result = NoResult

\* no ingestion run in progress
NoIngest ==
    /\ ingestion_state = IngestionState(1)
    /\ i_node = "END"
    /\ i_trace = <<>>
    /\ search_exhausted = FALSE
    /\ items = <<>>
    /\ idx = 0
    /\ ingested = 0
    /\ failed = 0
    /\ papers_table = {}

StartIngest ==
    /\ \E mr \in 1..MaxResults : ingestion_state = IngestionState(mr)
    /\ i_node = "search_arxiv"
    /\ i_trace = <<>>
    /\ search_exhausted = FALSE
    /\ items = <<>>
    /\ idx = 0
    /\ ingested = 0
    /\ failed = 0
    /\ papers_table \in SUBSET StoredRows

(***************************************************************************)
(* ResearchState at construction                                           *)
(***************************************************************************)
Unset == [set |-> FALSE]

ResearchNodes == {"retrieve", "rerank", "check_coverage", "invoke_mcp",
                  "merge_mcp", "gap_analysis", "design_suggestion",
                  "pattern_detection", "future_directions", "aggregate"}

ResearchState(use_mcp) ==
    [ retrieval_results |-> <<>>,
      ranked_results |-> <<>>,
      rerank_strategy |-> "ensemble",
      rerank_limit |-> 20,
      use_mcp |-> use_mcp,
      mcp_enabled |-> TRUE,
      mcp_context |-> Unset,
      mcp_results |-> <<>>,
      mcp_tool_result |-> Unset,
      should_use_mcp |-> FALSE,
      coverage_threshold |-> 500,
      coverage_score |-> 0,
      gap_analysis |-> Unset,
      design_suggestions |-> Unset,
      pattern_detection |-> Unset,
      future_directions |-> Unset,
      final_response |-> Unset,
      completed_at |-> None,
      error |-> None ]

\* no research run in progress
NoResearch ==
    /\ research_state = ResearchState(TRUE)
    /\ r_todo = {}
    /\ r_next = {}
    /\ r_runs = [n \in ResearchNodes |-> 0]
    /\ r_failed = FALSE
    /\ settings = [rerank_strategy |-> "ensemble", rerank_top_k |-> 0]
    /\ ranker_loaded = FALSE

\* no MCPToolResult yet
NoToolResult == [set |-> FALSE]

\* no call of invoke_mcp_node in progress
NoGateway ==
    /\ g_pc = "idle"
    /\ g_state = ResearchState(TRUE)
    /\ session = "none"
    /\ tool_result = NoToolResult

\* no arXiv search in progress
NoSearch ==
    /\ a_pc = "idle"
    /\ attempt = 0
    /\ a_calls = 0
    /\ a_yielded = 0
    /\ a_err = [kind |-> "none", http |-> 0, status_code |-> -1,
                text_matches |-> FALSE]

\* no consumer connected
NoMessage == [type |-> "none", started |-> 0, nodes |-> 0]

NoConsumer ==
    /\ c_conn = "none"
    /\ c_tasks = <<>>
    /\ ingestion_task = 0
    /\ c_sent = NoMessage
    /\ c_event = "none"

InitIngest ==
    StartIngest /\ NoCall /\ NoResearch /\ NoGateway /\ NoSearch /\ NoConsumer

(***************************************************************************)
(* search_arxiv_node                                                       *)
(***************************************************************************)
\* what search_arxiv_recent can return for max_results = mr: at most mr
\* results; the same paper can be yielded again after a retry
SearchResults(mr) == SeqsUpTo(Papers, mr)

search_arxiv_returns(state, res) ==
    [state EXCEPT !.status = "SEARCHING",
                  !.arxiv_results = res,
                  !.docs_found = Len(res),
                  !.progress_percent = 25 * PScale]

search_arxiv_raises(state) ==
    [state EXCEPT !.status = "ERROR",
                  !.error = "ArXiv search failed"]

\* search_arxiv_recent returned: either the iterator ended normally, or it
\* re-raised after its retries and search_arxiv_recent swallowed the
\* exception and returned what it had collected (exhausted = TRUE)
SearchReturns ==
    /\ i_node = "search_arxiv"
    /\ \E res \in SearchResults(ingestion_state.max_results), exhausted \in BOOLEAN :
          /\ ingestion_state' = search_arxiv_returns(ingestion_state, res)
          /\ search_exhausted' = exhausted
    /\ i_node' = "check_duplicates"
    /\ i_trace' = Append(i_trace, "search_arxiv")
    /\ UNCHANGED <<items, idx, ingested, failed, papers_table>>
    /\ UNCHANGED <<fvars, rvars, gvars, avars, cvars>>

\* an exception reached the node (raised outside search_arxiv_recent's try)
SearchRaises ==
    /\ i_node = "search_arxiv"
    /\ ingestion_state' = search_arxiv_raises(ingestion_state)
    /\ i_node' = "check_duplicates"
    /\ i_trace' = Append(i_trace, "search_arxiv")
    /\ UNCHANGED <<search_exhausted, items, idx, ingested, failed, papers_table>>
    /\ UNCHANGED <<fvars, rvars, gvars, avars, cvars>>

(***************************************************************************)
(* check_duplicates_node                                                   *)
(***************************************************************************)
existing_arxiv_ids(table) == {r.arxiv_id : r \in table}

existing_fingerprints(table) == {r.fingerprint : r \in table}

\* variant: only the arxiv_id is compared
IsExistingById(result, table) ==
    result.arxiv_id \in existing_arxiv_ids(table)

IsExisting(result, table) ==
    \/ result.arxiv_id \in existing_arxiv_ids(table)
    \/ _title_fingerprint(result.title) \in existing_fingerprints(table)

new_results(state, table) ==
    SelectSeq(state.arxiv_results, LAMBDA r : ~IsExisting(r, table))

\* variant: a title-fingerprint match is dropped but not counted as existing
check_duplicates_miscount(state, table) ==
    LET new == new_results(state, table)
        byId == SelectSeq(state.arxiv_results,
                          LAMBDA r : r.arxiv_id \in existing_arxiv_ids(table))
    IN [state EXCEPT
          !.status = IF Len(new) = 0 THEN "COMPLETED" ELSE "CHECKING_DUPLICATES",
          !.completed_at = IF Len(new) = 0 THEN "set" ELSE @,
          !.progress_percent = IF Len(new) = 0 THEN 100 * PScale ELSE 40 * PScale,
          !.docs_existing = Len(byId),
          !.docs_new = Len(new),
          !.arxiv_results = new]

check_duplicates_returns(state, table) ==
    LET new == new_results(state, table)
        counted == [state EXCEPT
                      !.status = "CHECKING_DUPLICATES",
                      !.progress_percent = 40 * PScale,
                      !.docs_existing = Len(state.arxiv_results) - Len(new),
                      !.docs_new = Len(new),
                      !.arxiv_results = new]
    IN IF Len(new) = 0
       THEN [counted EXCEPT !.status = "COMPLETED",
                            !.completed_at = "set",
                            !.progress_percent = 100 * PScale]
       ELSE counted

\* the exception comes from the repository, before any count is assigned
check_duplicates_raises(state) ==
    [state EXCEPT !.status = "ERROR",
                  !.progress_percent = 40 * PScale,
                  !.error = "Duplicate check failed"]

\* variant: the edge always leads to ingest_pdfs
should_ingest_always(state) == "ingest_pdfs"

\* conditional edge after check_duplicates
should_ingest(state) ==
    IF state.docs_new = 0 \/ state.status = "COMPLETED"
    THEN "finalize"
    ELSE "ingest_pdfs"

CheckDuplicatesReturns ==
    /\ i_node = "check_duplicates"
    /\ ingestion_state' = check_duplicates_returns(ingestion_state, papers_table)
    /\ i_node' = should_ingest(ingestion_state')
    /\ i_trace' = Append(i_trace, "check_duplicates")
    /\ UNCHANGED <<search_exhausted, items, idx, ingested, failed, papers_table>>
    /\ UNCHANGED <<fvars, rvars, gvars, avars, cvars>>

CheckDuplicatesRaises ==
    /\ i_node = "check_duplicates"
    /\ ingestion_state' = check_duplicates_raises(ingestion_state)
    /\ i_node' = should_ingest(ingestion_state')
    /\ i_trace' = Append(i_trace, "check_duplicates")
    /\ UNCHANGED <<search_exhausted, items, idx, ingested, failed, papers_table>>
    /\ UNCHANGED <<fvars, rvars, gvars, avars, cvars>>

(***************************************************************************)
(* ingest_pdfs_node                                                        *)
(***************************************************************************)
\* download_pdfs keeps, in order, the results whose download succeeded
Downloads(results) ==
    { SelectSeq([i \in 1..Len(results) |-> [k |-> i, r |-> results[i]]],
                LAMBDA e : e.k \in keep) : keep \in SUBSET (1..Len(results)) }

DownloadedItems(results) ==
    { [i \in 1..Len(d) |-> d[i].r] : d \in Downloads(results) }

\* pdf_path of an item: <data_raw>/<arxiv_id>.pdf
pdf_path(item) == item.arxiv_id

\* repo.insert_paper: no row is added when the arxiv_id exists, when the
\* unique fingerprint exists or when the database fails; it never raises
insert_paper(table, item, db_ok) ==
    IF \/ ~db_ok
       \/ item.arxiv_id \in existing_arxiv_ids(table)
       \/ _title_fingerprint(item.title) \in existing_fingerprints(table)
    THEN table
    ELSE table \cup {Row(item)}

\* variant: the interpolation counts the items still to do
loop_progress_remaining(i, n) ==
    Min(90 * PScale, 40 * PScale + (50 * (n - i) * PScale) \div n)

\* progress after the item at 0-based index i of n items
loop_progress(i, n) == Min(90 * PScale, 40 * PScale + (50 * (i + 1) * PScale) \div n)

ingest_skip(state) ==
    [state EXCEPT !.status = "COMPLETED",
                  !.completed_at = "set",
                  !.progress_percent = 100 * PScale]

ingest_raises(state) ==
    [state EXCEPT !.status = "ERROR",
                  !.error = "Ingestion failed"]

\* entry of the node up to the start of the loop
IngestBegin ==
    /\ i_node = "ingest_pdfs"
    /\ i_trace' = Append(i_trace, "ingest_pdfs")
    /\ IF ingestion_state.docs_new = 0
       THEN /\ ingestion_state' = ingest_skip(ingestion_state)
            /\ i_node' = "finalize"
            /\ UNCHANGED <<items, idx, ingested, failed>>
       ELSE /\ ingestion_state' = [ingestion_state EXCEPT !.status = "INGESTING"]
            /\ items' \in DownloadedItems(ingestion_state.arxiv_results)
            /\ idx' = 0
            /\ ingested' = 0
            /\ failed' = 0
            /\ i_node' = "ingest_loop"
    /\ UNCHANGED <<search_exhausted, papers_table>>
    /\ UNCHANGED <<fvars, rvars, gvars, avars, cvars>>

\* download_pdfs, Embedder(), QdrantStore() or PostgresRepository() raised
IngestRaises ==
    /\ i_node = "ingest_pdfs"
    /\ ingestion_state.docs_new /= 0
    /\ i_trace' = Append(i_trace, "ingest_pdfs")
    /\ ingestion_state' = ingest_raises(ingestion_state)
    /\ i_node' = "finalize"
    /\ UNCHANGED <<search_exhausted, items, idx, ingested, failed, papers_table>>
    /\ UNCHANGED <<fvars, rvars, gvars, avars, cvars>>

\* the file of the item is missing: counted as failed, no progress update
IngestItemMissing ==
    /\ i_node = "ingest_loop"
    /\ idx < Len(items)
    /\ failed' = failed + 1
    /\ ingestion_state' =
          [ingestion_state EXCEPT
              !.failed_pdfs = Append(@, <<pdf_path(items[idx + 1]), "File not found">>)]
    /\ idx' = idx + 1
    /\ UNCHANGED <<i_node, i_trace, search_exhausted, items, ingested, papers_table>>
    /\ UNCHANGED <<fvars, rvars, gvars, avars, cvars>>

\* _ingest_single_pdf returned an error
IngestItemError ==
    /\ i_node = "ingest_loop"
    /\ idx < Len(items)
    /\ failed' = failed + 1
    /\ ingestion_state' =
          [ingestion_state EXCEPT
              !.failed_pdfs = Append(@, <<pdf_path(items[idx + 1]), "Failed to ingest">>),
              !.progress_percent = loop_progress(idx, Len(items))]
    /\ idx' = idx + 1
    /\ UNCHANGED <<i_node, i_trace, search_exhausted, items, ingested, papers_table>>
    /\ UNCHANGED <<fvars, rvars, gvars, avars, cvars>>

\* _ingest_single_pdf upserted chunks_count chunks and called insert_paper
IngestItemOk ==
    /\ i_node = "ingest_loop"
    /\ idx < Len(items)
    /\ \E chunks_count \in 1..MaxChunks, db_ok \in BOOLEAN :
          /\ ingested' = ingested + chunks_count
          /\ papers_table' = insert_paper(papers_table, items[idx + 1], db_ok)
    /\ ingestion_state' =
          [ingestion_state EXCEPT
              !.processed_pdfs = Append(@, pdf_path(items[idx + 1])),
              !.progress_percent = loop_progress(idx, Len(items))]
    /\ idx' = idx + 1
    /\ UNCHANGED <<i_node, i_trace, search_exhausted, items, failed>>
    /\ UNCHANGED <<fvars, rvars, gvars, avars, cvars>>

\* after the loop: the counters are stored and the node returns
IngestEnd ==
    /\ i_node = "ingest_loop"
    /\ idx = Len(items)
    /\ ingestion_state' = [ingestion_state EXCEPT !.docs_ingested = ingested,
                                                  !.docs_failed = failed]
    /\ i_node' = "finalize"
    /\ UNCHANGED <<i_trace, search_exhausted, items, idx, ingested, failed, papers_table>>
    /\ UNCHANGED <<fvars, rvars, gvars, avars, cvars>>

(***************************************************************************)
(* finalize_ingestion_node                                                 *)
(***************************************************************************)
\* the try block only tests and assigns fields: it has no raising statement
\* variant: the status is left as the previous node set it
finalize_keeps_status(state) ==
    [state EXCEPT
        !.completed_at = IF state.completed_at = None THEN "set" ELSE @,
        !.progress_percent = 100 * PScale]

\* variant: a run that reaches finalize ends without its error
finalize_clears_error(state) ==
    [state EXCEPT
        !.status = IF state.status /= "ERROR" THEN "COMPLETED" ELSE @,
        !.completed_at = IF state.completed_at = None THEN "set" ELSE @,
        !.progress_percent = 100 * PScale,
        !.error = None]

finalize_ingestion_node(state) ==
    [state EXCEPT
        !.status = IF state.status /= "ERROR" THEN "COMPLETED" ELSE @,
        !.completed_at = IF state.completed_at = None THEN "set" ELSE @,
        !.progress_percent = 100 * PScale]

Finalize ==
    /\ i_node = "finalize"
    /\ ingestion_state' = finalize_ingestion_node(ingestion_state)
    /\ i_node' = "END"
    /\ i_trace' = Append(i_trace, "finalize")
    /\ UNCHANGED <<search_exhausted, items, idx, ingested, failed, papers_table>>
    /\ UNCHANGED <<fvars, rvars, gvars, avars, cvars>>

(***************************************************************************)
(* The ingestion graph                                                     *)
(***************************************************************************)
NextIngest ==
    \/ SearchReturns
    \/ SearchRaises
    \/ CheckDuplicatesReturns
    \/ CheckDuplicatesRaises
    \/ IngestBegin
    \/ IngestRaises
    \/ IngestItemMissing
    \/ IngestItemError
    \/ IngestItemOk
    \/ IngestEnd
    \/ Finalize

IngestSpec == InitIngest /\ [][NextIngest]_vars

\* the graph streams the state after every node: these are the emitted states
Emitted == i_node /= "ingest_loop"

TypeOKIngest ==
    /\ ingestion_state.status \in IngestionStatus
    /\ i_node \in {"search_arxiv", "check_duplicates", "ingest_pdfs",
                   "ingest_loop", "finalize", "END"}

(***************************************************************************)
(* RetrievalResult, RankedResult                                           *)
(***************************************************************************)
ScoreOne == 1000

RetrievalResult(chunk_id, paper_id, score, source) ==
    [chunk_id |-> chunk_id, paper_id |-> paper_id, score |-> score,
     source |-> source]

RankedResult(result, rerank_score, combined_score, rank) ==
    [chunk_id |-> result.chunk_id,
     paper_id |-> result.paper_id,
     primary_score |-> result.score,
     rerank_score |-> rerank_score,
     combined_score |-> combined_score,
     rank |-> rank,
     source |-> result.source]

\* the Field constraints pydantic validates when a RankedResult is built
RankedResultValid(r) ==
    /\ r.primary_score >= 0 /\ r.primary_score <= ScoreOne
    /\ r.rerank_score >= 0 /\ r.rerank_score <= ScoreOne
    /\ r.combined_score >= 0 /\ r.combined_score <= ScoreOne
    /\ r.rank >= 1

(***************************************************************************)
(* Python list operations                                                  *)
(***************************************************************************)
\* s[:k]; a negative k counts from the end
PySlicePrefix(s, k) ==
    IF k >= 0
    THEN SubSeq(s, 1, Min(k, Len(s)))
    ELSE SubSeq(s, 1, Max(Len(s) + k, 0))

\* variant: x goes before the elements that compare equal
InsertDescBeforeEqual(sorted, x, f) ==
    LET k == Cardinality({i \in 1..Len(sorted) : sorted[i][f] > x[f]})
    IN SubSeq(sorted, 1, k) \o <<x>> \o SubSeq(sorted, k + 1, Len(sorted))

\* insertion of x into a list sorted by non-increasing field f, after the
\* elements that compare greater or equal (list.sort is stable, also with
\* reverse=True)
InsertDesc(sorted, x, f) ==
    LET k == Cardinality({i \in 1..Len(sorted) : sorted[i][f] >= x[f]})
    IN SubSeq(sorted, 1, k) \o <<x>> \o SubSeq(sorted, k + 1, Len(sorted))

RECURSIVE SortDescPrefix(_, _, _)
SortDescPrefix(s, n, f) ==
    IF n = 0 THEN <<>>
    ELSE InsertDesc(SortDescPrefix(s, n - 1, f), s[n], f)

\* sorted(s, key=lambda x: x.f, reverse=True)
SortDesc(s, f) == SortDescPrefix(s, Len(s), f)

\* for idx, r in enumerate(ranked[:top_k]): r.rank = idx + 1; return ranked[:top_k]
AssignRanks(ranked, top_k) ==
    LET top == PySlicePrefix(ranked, top_k)
    IN [i \in 1..Len(top) |-> [top[i] EXCEPT !.rank = i]]

(***************************************************************************)
(* AdvancedRanker._fallback_rerank                                         *)
(***************************************************************************)
_fallback_rerank(results, top_k) ==
    LET top == PySlicePrefix(SortDesc(results, "score"), top_k)
    IN [i \in 1..Len(top) |-> RankedResult(top[i], top[i].score, top[i].score, i)]

(***************************************************************************)
(* AdvancedRanker.cross_encoder_rerank                                     *)
(* ce.kind is "unavailable" (self.cross_encoder is None), "raises"         *)
(* (predict raises) or "scores" with ce.v the raw model scores             *)
(***************************************************************************)
SeqMin(v) == CHOOSE m \in Range(v) : \A x \in Range(v) : m <= x

SeqMax(v) == CHOOSE m \in Range(v) : \A x \in Range(v) : m >= x

\* (scores - min) / (max - min + 1e-8), in thousandths
NormalizeScores(v) ==
    [i \in 1..Len(v) |->
        IF SeqMax(v) = SeqMin(v) THEN 0
        ELSE ((v[i] - SeqMin(v)) * ScoreOne) \div (SeqMax(v) - SeqMin(v))]

\* variant: a failing prediction ends the call with an empty list
cross_encoder_rerank_drops_on_error(results, top_k, ce) ==
    IF ce.kind = "unavailable" THEN _fallback_rerank(results, top_k)
    ELSE IF results = <<>> THEN <<>>
    ELSE IF ce.kind = "raises" THEN <<>>
    ELSE LET norm == NormalizeScores(ce.v)
             ranked == [i \in 1..Len(results) |->
                          RankedResult(results[i], norm[i],
                                       (results[i].score + norm[i]) \div 2, i)]
         IN AssignRanks(SortDesc(ranked, "combined_score"), top_k)

cross_encoder_rerank(results, top_k, ce) ==
    IF ce.kind = "unavailable" THEN _fallback_rerank(results, top_k)
    ELSE IF results = <<>> THEN <<>>
    ELSE IF ce.kind = "raises" THEN _fallback_rerank(results, top_k)
    ELSE LET norm == NormalizeScores(ce.v)
             ranked == [i \in 1..Len(results) |->
                          RankedResult(results[i], norm[i],
                                       (results[i].score + norm[i]) \div 2, i)]
         IN AssignRanks(SortDesc(ranked, "combined_score"), top_k)

(***************************************************************************)
(* AdvancedRanker.semantic_diversity_rerank                                *)
(* emb.kind is "raises" (the embedder fails) or "sims" with emb.m the      *)
(* cosine similarities of the normalized embeddings, in thousandths        *)
(***************************************************************************)
\* np.argmax: the first index of the largest score
ArgMaxScore(results) ==
    CHOOSE i \in 1..Len(results) :
        /\ \A j \in 1..Len(results) : results[j].score <= results[i].score
        /\ \A j \in 1..(i - 1) : results[j].score < results[i].score

SetMax(S) == CHOOSE m \in S : \A x \in S : m >= x

\* diversity_weight * relevance - (1 - diversity_weight) * redundancy, with
\* the weight in tenths
\* variant: the weight multiplies the redundancy, its complement the relevance
mmr_score_weight_on_redundancy(results, emb, selected, i, dw) ==
    (10 - dw) * results[i].score - dw * SetMax({emb.m[i][j] : j \in Range(selected)})

mmr_score(results, emb, selected, i, dw) ==
    dw * results[i].score - (10 - dw) * SetMax({emb.m[i][j] : j \in Range(selected)})

\* the first index, in iteration order of remaining_indices (ascending for a
\* set of small integers), with the strictly largest score
BestIdx(results, emb, selected, remaining, dw) ==
    CHOOSE i \in remaining :
        /\ \A j \in remaining :
              mmr_score(results, emb, selected, j, dw)
                 <= mmr_score(results, emb, selected, i, dw)
        /\ \A j \in remaining :
              j < i => mmr_score(results, emb, selected, j, dw)
                          < mmr_score(results, emb, selected, i, dw)

RECURSIVE MMRSelect(_, _, _, _, _)
MMRSelect(results, emb, selected, rounds, dw) ==
    LET remaining == (1..Len(results)) \ Range(selected)
    IN IF rounds <= 0 \/ remaining = {} THEN selected
       ELSE MMRSelect(results, emb,
                      Append(selected, BestIdx(results, emb, selected, remaining, dw)),
                      rounds - 1, dw)

semantic_diversity_rerank(results, top_k, dw, emb) ==
    IF results = <<>> THEN <<>>
    ELSE IF emb.kind = "raises" THEN _fallback_rerank(results, top_k)
    ELSE LET first == ArgMaxScore(results)
             selected == MMRSelect(results, emb, <<first>>,
                                   Min(top_k - 1, Len(results) - 1), dw)
         IN [k \in 1..Len(selected) |->
                RankedResult(results[selected[k]], results[selected[k]].score,
                             results[selected[k]].score, k)]

(***************************************************************************)
(* AdvancedRanker.ensemble_rerank                                          *)
(* weights are in thousandths                                              *)
(***************************************************************************)
RECURSIVE SumSeq(_)
SumSeq(s) == IF s = <<>> THEN 0 ELSE Head(s) + SumSeq(Tail(s))

Abs(x) == IF x < 0 THEN -x ELSE x

KnownStrategies == {"cross_encoder", "semantic_diversity"}

\* the (ranked, weight) pairs of the member strategies, unknown names skipped
ranked_results_per_strategy(results, strategies, weights, ce, emb) ==
    LET n == Min(Len(strategies), Len(weights))
        run(i) == IF strategies[i] = "cross_encoder"
                  THEN cross_encoder_rerank(results, Len(results), ce)
                  ELSE semantic_diversity_rerank(results, Len(results), 3, emb)
        all == [i \in 1..n |-> [strategy |-> strategies[i],
                                ranked |-> IF strategies[i] \in KnownStrategies
                                           THEN run(i) ELSE <<>>,
                                weight |-> weights[i]]]
    IN SelectSeq(all, LAMBDA m : m.strategy \in KnownStrategies)

\* weight * (1.0 - (rank - 1) / max(len(ranked_list), 1)) summed over the
\* entries of every member ranking that carry this chunk_id
score_map(members, chunk_id) ==
    SumSeq([k \in 1..Len(members) |->
        SumSeq([i \in 1..Len(members[k].ranked) |->
            IF members[k].ranked[i].chunk_id = chunk_id
            THEN (members[k].weight
                    * (Len(members[k].ranked) - members[k].ranked[i].rank + 1))
                 \div Len(members[k].ranked)
            ELSE 0])])

\* the outcome of a call: what it returns or raises, the member strategies
\* it ran and whether it computed ensemble scores
ensemble_rerank(results, top_k, strategies, weights, ce, emb) ==
    IF results = <<>>
    THEN [kind |-> "return", value |-> <<>>, members_run |-> <<>>,
          scored |-> FALSE]
    ELSE IF Len(strategies) /= Len(weights)
    THEN [kind |-> "ValueError", value |-> <<>>, members_run |-> <<>>,
          scored |-> FALSE]
    ELSE IF Abs(SumSeq(weights) - 1000) > 10
    THEN [kind |-> "ValueError", value |-> <<>>, members_run |-> <<>>,
          scored |-> FALSE]
    ELSE
      LET members == ranked_results_per_strategy(results, strategies, weights, ce, emb)
          names == [k \in 1..Len(members) |-> members[k].strategy]
          \* RankedResult(..., rank=0): built in input order, rank set later
          built == [i \in 1..Len(results) |->
                      RankedResult(results[i],
                                   score_map(members, results[i].chunk_id),
                                   (results[i].score
                                      + score_map(members, results[i].chunk_id)) \div 2,
                                   0)]
      IN IF members = <<>>
         THEN [kind |-> "return", value |-> _fallback_rerank(results, top_k),
               members_run |-> names, scored |-> FALSE]
         ELSE IF \A i \in 1..Len(built) : RankedResultValid(built[i])
         THEN [kind |-> "return",
               value |-> AssignRanks(SortDesc(built, "combined_score"), top_k),
               members_run |-> names, scored |-> TRUE]
         \* a validation error is caught by the except branch
         ELSE [kind |-> "return", value |-> _fallback_rerank(results, top_k),
               members_run |-> names, scored |-> TRUE]

(***************************************************************************)
(* Calls of the ranker methods on enumerated arguments                     *)
(***************************************************************************)
Chunks == {"c1", "c2"}

PaperOf == [c1 |-> "p1", c2 |-> "p2", c3 |-> "p3", x1 |-> "x1"]

CandScores == {200, 600}

Candidates ==
    {RetrievalResult(c, PaperOf[c], sc, "qdrant") : c \in Chunks, sc \in CandScores}

CandidateLists == SeqsUpTo(Candidates, MaxCands)

TopKs == (-1)..(MaxCands + 1)

StrategyLists == {<<"cross_encoder", "semantic_diversity">>, <<"cross_encoder">>,
                  <<"bm25">>}

WeightLists == {<<600, 400>>, <<500, 200>>, <<1000>>, <<600, 415>>, <<1005>>}

\* raw cross-encoder scores, one per result
CEOutcomes(n) ==
    {[kind |-> "unavailable"], [kind |-> "raises"]}
        \cup {[kind |-> "scores", v |-> v] : v \in [1..n -> {0, 2}]}

\* symmetric similarity matrices with unit diagonal
EmbOutcomes(n) ==
    {[kind |-> "raises"]} \cup
    {[kind |-> "sims", m |-> m] : m \in
        {m \in [1..n -> [1..n -> {0, ScoreOne}]] :
            \A i, j \in 1..n : m[i][i] = ScoreOne /\ m[i][j] = m[j][i]}}

(***************************************************************************)
(* The research workflow: retrieval nodes                                  *)
(***************************************************************************)
RetrievalScores == {200, 800}

\* what the vector store can return: points are keyed by chunk_id, so the
\* chunk_ids of one search are pairwise distinct
RetrievedLists ==
    {l \in SeqsUpTo({RetrievalResult(c, PaperOf[c], sc, "qdrant") :
                        c \in Chunks, sc \in RetrievalScores}, MaxRetrieved) :
        \A i, j \in 1..Len(l) : i /= j => l[i].chunk_id /= l[j].chunk_id}

\* float(np.mean([r.score for r in retrieval_results[:5]]))
MeanTop5(results) ==
    LET top == PySlicePrefix(results, 5)
    IN SumSeq([i \in 1..Len(top) |-> top[i].score]) \div Len(top)

retrieve_returns(state, results) ==
    [state EXCEPT !.retrieval_results = results,
                  !.coverage_score = IF results /= <<>> THEN MeanTop5(results) ELSE 0]

retrieve_raises(state) == [state EXCEPT !.error = "Retrieval failed"]

\* settings.rerank_strategy or state.rerank_strategy
EffectiveStrategy(state, cfg) ==
    IF cfg.rerank_strategy /= "" THEN cfg.rerank_strategy ELSE state.rerank_strategy

\* settings.rerank_top_k or state.rerank_limit
EffectiveTopK(state, cfg) ==
    IF cfg.rerank_top_k /= 0 THEN cfg.rerank_top_k ELSE state.rerank_limit

rerank_results_node(state, cfg, ce, emb) ==
    IF state.retrieval_results = <<>> THEN state
    ELSE LET strategy == EffectiveStrategy(state, cfg)
             top_k == EffectiveTopK(state, cfg)
             ranked ==
               IF strategy = "cross_encoder"
               THEN cross_encoder_rerank(state.retrieval_results, top_k, ce)
               ELSE IF strategy = "semantic_diversity"
               THEN semantic_diversity_rerank(state.retrieval_results, top_k, 3, emb)
               ELSE IF strategy = "ensemble"
               THEN ensemble_rerank(state.retrieval_results, top_k,
                                    <<"cross_encoder", "semantic_diversity">>,
                                    <<600, 400>>, ce, emb).value
               ELSE _fallback_rerank(state.retrieval_results, top_k)
         IN [state EXCEPT !.ranked_results = ranked]

\* variant: external lookup also when the coverage equals the threshold
check_coverage_node_at_threshold(state) ==
    IF ~state.mcp_enabled THEN [state EXCEPT !.should_use_mcp = FALSE]
    ELSE IF ~state.use_mcp THEN [state EXCEPT !.should_use_mcp = FALSE]
    ELSE IF state.coverage_score <= state.coverage_threshold
    THEN [state EXCEPT !.should_use_mcp = TRUE,
                       !.mcp_context = [set |-> TRUE,
                                        tool_name |-> "arxiv_latest",
                                        result_limit |-> 10,
                                        timeout |-> 30]]
    ELSE [state EXCEPT !.should_use_mcp = FALSE]

check_coverage_node(state) ==
    IF ~state.mcp_enabled THEN [state EXCEPT !.should_use_mcp = FALSE]
    ELSE IF ~state.use_mcp THEN [state EXCEPT !.should_use_mcp = FALSE]
    ELSE IF state.coverage_score < state.coverage_threshold
    THEN [state EXCEPT !.should_use_mcp = TRUE,
                       !.mcp_context = [set |-> TRUE,
                                        tool_name |-> "arxiv_latest",
                                        result_limit |-> 10,
                                        timeout |-> 30]]
    ELSE [state EXCEPT !.should_use_mcp = FALSE]

\* conditional edge after check_coverage
should_use_mcp(state) ==
    IF state.should_use_mcp THEN "invoke_mcp" ELSE "gap_analysis"

(***************************************************************************)
(* The research workflow: MCP nodes                                        *)
(***************************************************************************)
McpChunks == {"c2", "x1"}

\* what _run_mcp_tools can return for arxiv_latest: results with score 0.8
\* and source mcp_arxiv (empty when the tool failed); the same paper can be
\* listed twice
McpResultLists ==
    SeqsUpTo({RetrievalResult(c, c, 800, "mcp_arxiv") : c \in McpChunks}, MaxMcp)

\* variant: the node also appends what it fetched to ranked_results
invoke_mcp_extends_ranked(state, mcp_results) ==
    IF ~state.should_use_mcp \/ ~state.mcp_context.set THEN state
    ELSE [state EXCEPT
            !.mcp_results = mcp_results,
            !.mcp_tool_result = [set |-> TRUE,
                                 tool_name |-> state.mcp_context.tool_name,
                                 success |-> Len(mcp_results) > 0,
                                 results |-> mcp_results],
            !.ranked_results =
                @ \o [i \in 1..Len(mcp_results) |->
                        RankedResult(mcp_results[i], mcp_results[i].score,
                                     mcp_results[i].score, 1)]]

invoke_mcp_returns(state, mcp_results) ==
    IF ~state.should_use_mcp \/ ~state.mcp_context.set THEN state
    ELSE [state EXCEPT
            !.mcp_results = mcp_results,
            !.mcp_tool_result = [set |-> TRUE,
                                 tool_name |-> state.mcp_context.tool_name,
                                 success |-> Len(mcp_results) > 0,
                                 results |-> mcp_results]]

invoke_mcp_raises(state) == [state EXCEPT !.error = "MCP invocation failed"]

\* {r.chunk_id: r for r in ranked_results}: keys in order of first
\* occurrence, each with the last entry that carries it
RankedDict(ranked) ==
    LET firsts == SelectSeq([i \in 1..Len(ranked) |-> i],
                            LAMBDA i : \A j \in 1..(i - 1) :
                                          ranked[j].chunk_id /= ranked[i].chunk_id)
        last(c) == CHOOSE i \in 1..Len(ranked) :
                      /\ ranked[i].chunk_id = c
                      /\ \A j \in (i + 1)..Len(ranked) : ranked[j].chunk_id /= c
    IN [k \in 1..Len(firsts) |-> ranked[last(ranked[firsts[k]].chunk_id)]]

\* the loop over mcp_results: an external result is added unless its
\* chunk_id is already a key; its provisional rank is
\* len(ranked_dict) + idx + 1
RECURSIVE AddMcp(_, _, _)
AddMcp(dict, mcp_results, i) ==
    IF i > Len(mcp_results) THEN dict
    ELSE IF \E k \in 1..Len(dict) : dict[k].chunk_id = mcp_results[i].chunk_id
    THEN AddMcp(dict, mcp_results, i + 1)
    ELSE AddMcp(Append(dict, RankedResult(mcp_results[i], mcp_results[i].score,
                                          mcp_results[i].score,
                                          Len(dict) + (i - 1) + 1)),
                mcp_results, i + 1)

\* variant: the converted external results are appended to the local ones
\* whatever their chunk_id
merge_mcp_results_appended(state) ==
    IF state.mcp_results = <<>> THEN state
    ELSE LET n == Len(state.ranked_results)
             converted == [i \in 1..Len(state.mcp_results) |->
                             RankedResult(state.mcp_results[i],
                                          state.mcp_results[i].score,
                                          state.mcp_results[i].score, n + i)]
             merged == SortDesc(state.ranked_results \o converted,
                                "combined_score")
             ranked == [i \in 1..Len(merged) |-> [merged[i] EXCEPT !.rank = i]]
         IN [state EXCEPT
               !.ranked_results = PySlicePrefix(ranked, state.rerank_limit)]

merge_mcp_results_node(state) ==
    IF state.mcp_results = <<>> THEN state
    ELSE LET merged == SortDesc(AddMcp(RankedDict(state.ranked_results),
                                       state.mcp_results, 1),
                                "combined_score")
             ranked == [i \in 1..Len(merged) |-> [merged[i] EXCEPT !.rank = i]]
         IN [state EXCEPT
               !.ranked_results = PySlicePrefix(ranked, state.rerank_limit)]

(***************************************************************************)
(* The research workflow: analysis nodes                                   *)
(***************************************************************************)
AnalysisField ==
    [gap_analysis |-> "gap_analysis",
     design_suggestion |-> "design_suggestions",
     pattern_detection |-> "pattern_detection",
     future_directions |-> "future_directions"]

AnalysisNodes == DOMAIN AnalysisField

\* the strings of the list of a result that aggregate reads (identified_gaps,
\* suggested_approaches, trend_analysis; next_research_directions for the
\* future directions): n strings, told apart by the node and their position
ItemsOf(node, n) == [i \in 1..n |-> [of |-> node, k |-> i]]

\* confidence of a result built from the generator's JSON
LLMConfidence ==
    [gap_analysis |-> 850, design_suggestion |-> 850,
     pattern_detection |-> 800, future_directions |-> 750]

\* variant: the heuristic substitute is given the confidence of a result
\* built from the generator's JSON
HeuristicConfidenceAsParsed ==
    [gap_analysis |-> 850, design_suggestion |-> 850,
     pattern_detection |-> 800, future_directions |-> 750]

\* confidence of the heuristic substitute
HeuristicConfidence ==
    [gap_analysis |-> 600, design_suggestion |-> 600,
     pattern_detection |-> 550, future_directions |-> 500]

\* llm is "json" (the generator answered with valid JSON), "not_json" or
\* "fails" (the generator raised); the inner handlers take every exception
\* of the generator, and no other statement of the node raises
\* variant: a node that finds no ranked results returns the state as it is
analysis_skips_empty(node, state, llm) ==
    IF state.ranked_results = <<>> THEN state
    ELSE IF llm = "json"
    THEN [state EXCEPT ![AnalysisField[node]] =
            [set |-> TRUE, confidence_score |-> LLMConfidence[node], basis |-> "llm",
             items |-> ItemsOf(node, MaxItems)]]
    ELSE [state EXCEPT ![AnalysisField[node]] =
            [set |-> TRUE, confidence_score |-> HeuristicConfidence[node],
             basis |-> "heuristic", items |-> ItemsOf(node, 3)]]

analysis_returns(node, state, llm) ==
    IF state.ranked_results = <<>>
    THEN [state EXCEPT ![AnalysisField[node]] =
            [set |-> TRUE, confidence_score |-> 0, basis |-> "placeholder",
             items |-> <<>>]]
    ELSE IF llm = "json"
    THEN [state EXCEPT ![AnalysisField[node]] =
            [set |-> TRUE, confidence_score |-> LLMConfidence[node], basis |-> "llm",
             items |-> ItemsOf(node, MaxItems)]]
    ELSE [state EXCEPT ![AnalysisField[node]] =
            [set |-> TRUE, confidence_score |-> HeuristicConfidence[node],
             basis |-> "heuristic", items |-> ItemsOf(node, 3)]]

\* the confidence scores of the analyses that are set, in the order
\* gap, design, pattern, future
Confidences(state) ==
    LET fs == <<"gap_analysis", "design_suggestions", "pattern_detection",
                "future_directions">>
        present == SelectSeq(fs, LAMBDA f : state[f].set)
    IN [i \in 1..Len(present) |-> state[present[i]].confidence_score]

\* f"Address gap: {gap}", f"Implement: {sugg}", f"Follow trend: {trend}"
Recommend(prefix, result) ==
    IF result.set
    THEN LET top == PySlicePrefix(result.items, 3)
         IN [i \in 1..Len(top) |-> [prefix |-> prefix, text |-> top[i]]]
    ELSE <<>>

\* variant: every string of the three lists becomes a recommendation
recommendations_unsliced(state) ==
    LET all(prefix, result) ==
           IF result.set
           THEN [i \in 1..Len(result.items) |->
                   [prefix |-> prefix, text |-> result.items[i]]]
           ELSE <<>>
    IN all("Address gap", state.gap_analysis)
         \o all("Implement", state.design_suggestions)
         \o all("Follow trend", state.pattern_detection)

recommendations(state) ==
    Recommend("Address gap", state.gap_analysis)
      \o Recommend("Implement", state.design_suggestions)
      \o Recommend("Follow trend", state.pattern_detection)

aggregate_returns(state) ==
    [state EXCEPT
        !.final_response =
            [set |-> TRUE,
             recommendations |-> recommendations(state),
             retrieved_papers |->
                 Cardinality({state.ranked_results[i].paper_id :
                                 i \in 1..Len(state.ranked_results)}),
             ranked_results_count |-> Len(state.ranked_results),
             used_mcp |-> Len(state.mcp_results) > 0,
             analysis |-> [gap_analysis |-> state.gap_analysis,
                           design_suggestions |-> state.design_suggestions,
                           pattern_detection |-> state.pattern_detection,
                           future_directions |-> state.future_directions],
             sources |-> {state.ranked_results[i].paper_id :
                             i \in 1..Len(state.ranked_results)},
             confidence_sum |-> SumSeq(Confidences(state)),
             confidence_count |-> Len(Confidences(state))],
        !.completed_at = "set"]

aggregate_raises(state) == [state EXCEPT !.error = "Aggregation failed"]

(***************************************************************************)
(* The research graph (create_research_graph) and its execution: the      *)
(* nodes triggered by the previous step run one after the other on the    *)
(* state, and the nodes their edges name run in the next step              *)
(***************************************************************************)
Edges(n, state) ==
    CASE n = "retrieve" -> {"rerank"}
      [] n = "rerank" -> {"check_coverage"}
      [] n = "check_coverage" -> {should_use_mcp(state)}
      [] n = "invoke_mcp" -> {"merge_mcp"}
      [] n = "merge_mcp" -> {"gap_analysis"}
      [] n = "gap_analysis" -> {"aggregate", "design_suggestion"}
      [] n = "design_suggestion" -> {"aggregate", "pattern_detection"}
      [] n = "pattern_detection" -> {"aggregate", "future_directions"}
      [] n = "future_directions" -> {"aggregate"}
      [] n = "aggregate" -> {}

\* values of RERANK_STRATEGY and RERANK_TOP_K in the environment: the
\* defaults, a single-result cross-encoder, diversity, and both unset
Settings ==
    {[rerank_strategy |-> "ensemble", rerank_top_k |-> 20],
     [rerank_strategy |-> "cross_encoder", rerank_top_k |-> 1],
     [rerank_strategy |-> "semantic_diversity", rerank_top_k |-> 20],
     [rerank_strategy |-> "", rerank_top_k |-> 0]}

StartResearch ==
    /\ \E use_mcp \in BOOLEAN : research_state = ResearchState(use_mcp)
    /\ r_todo = {"retrieve"}
    /\ r_next = {}
    /\ r_runs = [n \in ResearchNodes |-> 0]
    /\ r_failed = FALSE
    /\ settings \in Settings
    /\ ranker_loaded \in BOOLEAN

InitResearch ==
    NoIngest /\ NoCall /\ StartResearch /\ NoGateway /\ NoSearch /\ NoConsumer

\* node n has run and left the state new; raised tells whether its
\* except branch ran
Ran(n, new, raised) ==
    /\ n \in r_todo
    /\ research_state' = new
    /\ r_runs' = [r_runs EXCEPT ![n] = @ + 1]
    /\ r_failed' = (r_failed \/ raised)
    /\ LET triggered == r_next \cup Edges(n, new)
       IN IF r_todo \ {n} = {}
          THEN r_todo' = triggered /\ r_next' = {}
          ELSE r_todo' = r_todo \ {n} /\ r_next' = triggered
    /\ UNCHANGED <<settings, ranker_loaded, ivars, fvars, gvars, avars, cvars>>

RetrieveReturns ==
    \E results \in RetrievedLists :
        Ran("retrieve", retrieve_returns(research_state, results), FALSE)

RetrieveRaises ==
    Ran("retrieve", retrieve_raises(research_state), TRUE)

\* the outcomes of the cross-encoder for n candidates, given whether the
\* model was loaded when the ranker was built
LoadedCEOutcomes(n) ==
    {ce \in CEOutcomes(n) : (ce.kind = "unavailable") <=> ~ranker_loaded}

RerankResults ==
    LET n == Len(research_state.retrieval_results)
    IN \E ce \in LoadedCEOutcomes(n), emb \in EmbOutcomes(n) :
          Ran("rerank", rerank_results_node(research_state, settings, ce, emb),
              FALSE)

CheckCoverage ==
    Ran("check_coverage", check_coverage_node(research_state), FALSE)

InvokeMcpReturns ==
    \E mcp_results \in McpResultLists :
        Ran("invoke_mcp", invoke_mcp_returns(research_state, mcp_results), FALSE)

\* asyncio.run raises (it is called from a running event loop)
InvokeMcpRaises ==
    /\ research_state.should_use_mcp /\ research_state.mcp_context.set
    /\ Ran("invoke_mcp", invoke_mcp_raises(research_state), TRUE)

MergeMcp ==
    Ran("merge_mcp", merge_mcp_results_node(research_state), FALSE)

AnalysisReturns ==
    \E node \in AnalysisNodes, llm \in {"json", "not_json", "fails"} :
        Ran(node, analysis_returns(node, research_state, llm), FALSE)

AggregateReturns ==
    Ran("aggregate", aggregate_returns(research_state), FALSE)

AggregateRaises ==
    Ran("aggregate", aggregate_raises(research_state), TRUE)

NextResearch ==
    \/ RetrieveReturns
    \/ RetrieveRaises
    \/ RerankResults
    \/ CheckCoverage
    \/ InvokeMcpReturns
    \/ InvokeMcpRaises
    \/ MergeMcp
    \/ AnalysisReturns
    \/ AggregateReturns
    \/ AggregateRaises

ResearchSpec == InitResearch /\ [][NextResearch]_vars

(***************************************************************************)
(* Both workflows, each node run to its end once it is triggered           *)
(***************************************************************************)
InitWorkflows == InitIngest \/ InitResearch

NextWorkflows == NextIngest \/ NextResearch

\* a step that counts one more run of a node of the current step
RunTriggeredNode ==
    \E n \in r_todo : r_runs' = [r_runs EXCEPT ![n] = @ + 1]

\* the graph executors run every node they have triggered
WorkflowsSpec ==
    /\ InitWorkflows
    /\ [][NextWorkflows]_vars
    /\ WF_vars(NextIngest)
    /\ WF_r_runs(RunTriggeredNode)

(***************************************************************************)
(* Calls of single operations, each on inputs drawn from bounded sets      *)
(***************************************************************************)
\* what the vector store can return for the rerank node: up to MaxDiverse
\* results with pairwise distinct chunk_ids
RerankInputs ==
    {l \in SeqsUpTo({RetrievalResult(c, PaperOf[c], sc, "qdrant") :
                        c \in Chunks \cup {"c3"}, sc \in CandScores},
                    MaxDiverse) :
        \A i, j \in 1..Len(l) : i /= j => l[i].chunk_id /= l[j].chunk_id}

\* chunk_ids of the local results handed to the merge node
LocalChunkSeq == <<"c1", "c2", "c3", "c4", "c5", "c6">>

\* ranked_results as the rerank node leaves them: distinct chunk_ids, ranks
\* 1..n, combined_score in any order (semantic_diversity does not sort)
LocalRanked ==
    UNION {{[i \in 1..n |->
                RankedResult(RetrievalResult(LocalChunkSeq[i], "p1", sc[i], "qdrant"),
                             sc[i], sc[i], i)] :
              sc \in [1..n -> RetrievalScores]} :
           n \in 0..Min(MaxLocal, Len(LocalChunkSeq))}

\* external results: arxiv_latest gives every result the score 0.8
ExternalLists ==
    SeqsUpTo({RetrievalResult(c, c, 800, "mcp_arxiv") : c \in McpChunks \cup {"x2"}},
             MaxMcp)

\* inputs of semantic_diversity_rerank: any list the vector store can return,
\* with any similarities, and five candidates of which two have the same
\* embedding: the two are at similarity 1 and equally similar to each other
\* candidate (a superset of the cosine matrices of real vectors)
DiverseTopKs == (-1)..(MaxDiverse + 1)

DiversityWeights == {3, 7}

NearDupChunks == <<"c1", "c2", "c3", "c4", "c5">>

NearDupScores == {0, ScoreOne}

OtherSims == {500, 800}

UnorderedPairs(S) == {{a, b} : a \in S, b \in S} \ {{a} : a \in S}

NearDupResults ==
    {[i \in 1..Len(NearDupChunks) |->
         RetrievalResult(NearDupChunks[i], "p1", sc[i], "qdrant")] :
       sc \in [1..Len(NearDupChunks) -> NearDupScores]}

NearDupEmbeddings ==
    LET n == Len(NearDupChunks)
        Rep(pr, i) == IF i \in pr THEN CHOOSE p \in pr : \A q \in pr : p <= q ELSE i
    IN UNION {{[kind |-> "sims",
                m |-> [i \in 1..n |-> [j \in 1..n |->
                         IF Rep(pr, i) = Rep(pr, j) THEN ScoreOne
                         ELSE s[{Rep(pr, i), Rep(pr, j)}]]]] :
                 s \in [UnorderedPairs({Rep(pr, i) : i \in 1..n}) -> OtherSims]} :
              pr \in UnorderedPairs(1..n)}

DiversityInputs ==
    UNION {{[results |-> results, top_k |-> top_k, dw |-> dw, emb |-> emb] :
              top_k \in DiverseTopKs, dw \in DiversityWeights,
              emb \in EmbOutcomes(Len(results))} :
           results \in RerankInputs}
    \cup {[results |-> results, top_k |-> 3, dw |-> 3, emb |-> emb] :
            results \in NearDupResults, emb \in NearDupEmbeddings}

\* rerank_limit: Field(default=20, ge=5, le=50)
RerankLimits == {5, 20}

MergeInputs ==
    {[ResearchState(TRUE) EXCEPT !.ranked_results = ranked,
                                 !.mcp_results = mcp,
                                 !.rerank_limit = limit] :
        ranked \in LocalRanked, mcp \in ExternalLists, limit \in RerankLimits}

\* states aggregate_analysis_node can be given: each analysis result null or
\* set with a list of 0..MaxItems strings, and ranked results whose papers
\* repeat
AnalysisResults(node, lens) ==
    {Unset} \cup
    {[set |-> TRUE, confidence_score |-> c, basis |-> "llm",
      items |-> ItemsOf(node, n)] : c \in {0, LLMConfidence[node]}, n \in lens}

AggregateRanked ==
    UNION {{[i \in 1..n |->
                RankedResult(RetrievalResult(LocalChunkSeq[i], ps[i], 800, "qdrant"),
                             800, 800, i)] :
              ps \in [1..n -> {"p1", "p2"}]} :
           n \in 0..MaxRetrieved}

AggregateInputs ==
    {[ResearchState(TRUE) EXCEPT !.ranked_results = ranked,
                                 !.gap_analysis = g,
                                 !.design_suggestions = ds,
                                 !.pattern_detection = pd,
                                 !.future_directions = fd] :
        ranked \in AggregateRanked,
        g \in AnalysisResults("gap_analysis", 0..MaxItems),
        ds \in AnalysisResults("design_suggestion", 0..MaxItems),
        pd \in AnalysisResults("pattern_detection", 0..MaxItems),
        fd \in AnalysisResults("future_directions", {3})}

\* titles: letters of both cases, a blank and a punctuation mark
TitleChars == {"A", "a", "n", " ", "-"}

Titles == SeqsUpTo(TitleChars, MaxTitle)

InitCalls ==
    /\ NoIngest
    /\ NoResearch
    /\ NoGateway
    /\ NoSearch
    /\ NoConsumer
    /\ f_result = NoResult
    /\ \/ \E results \in CandidateLists, top_k \in TopKs :
             f_call = [op |-> "_fallback_rerank", results |-> results,
                       top_k |-> top_k]
       \/ \E results \in CandidateLists, top_k \in TopKs,
             strategies \in StrategyLists, weights \in WeightLists :
             f_call = [op |-> "ensemble_rerank", results |-> results,
                       top_k |-> top_k, strategies |-> strategies,
                       weights |-> weights]
       \/ \E results \in RerankInputs, cfg \in Settings :
             f_call = [op |-> "rerank_results_node", results |-> results,
                       settings |-> cfg]
       \/ \E state \in MergeInputs :
             f_call = [op |-> "merge_mcp_results_node", state |-> state]
       \/ \E title \in Titles :
             f_call = [op |-> "_title_fingerprint", title |-> title]
       \/ \E state \in AggregateInputs :
             f_call = [op |-> "aggregate_analysis_node", state |-> state]
       \/ \E in \in DiversityInputs :
             f_call = [op |-> "semantic_diversity_rerank", results |-> in.results,
                       top_k |-> in.top_k, dw |-> in.dw, emb |-> in.emb]
       \/ \E results \in CandidateLists, top_k \in TopKs :
             \E ce \in CEOutcomes(Len(results)) :
                f_call = [op |-> "cross_encoder_rerank", results |-> results,
                          top_k |-> top_k, ce |-> ce]

CallFallback ==
    /\ f_result = NoResult
    /\ f_call.op = "_fallback_rerank"
    /\ f_result' = [kind |-> "return",
                    value |-> _fallback_rerank(f_call.results, f_call.top_k)]
    /\ UNCHANGED <<f_call, ivars, rvars, gvars, avars, cvars>>

CallEnsemble ==
    /\ f_result = NoResult
    /\ f_call.op = "ensemble_rerank"
    /\ \E ce \in CEOutcomes(Len(f_call.results)),
          emb \in EmbOutcomes(Len(f_call.results)) :
          f_result' = ensemble_rerank(f_call.results, f_call.top_k,
                                      f_call.strategies, f_call.weights, ce, emb)
    /\ UNCHANGED <<f_call, ivars, rvars, gvars, avars, cvars>>

\* rerank_results_node on a state that holds the retrieved results
CallRerankNode ==
    /\ f_result = NoResult
    /\ f_call.op = "rerank_results_node"
    /\ \E ce \in CEOutcomes(Len(f_call.results)),
          emb \in EmbOutcomes(Len(f_call.results)) :
          LET new == rerank_results_node(
                        [ResearchState(TRUE) EXCEPT
                            !.retrieval_results = f_call.results],
                        f_call.settings, ce, emb)
          IN f_result' = [kind |-> "return", value |-> new.ranked_results,
                          error |-> new.error, ce |-> ce.kind]
    /\ UNCHANGED <<f_call, ivars, rvars, gvars, avars, cvars>>

\* semantic_diversity_rerank with the similarities the embedder gives
CallDiversity ==
    /\ f_result = NoResult
    /\ f_call.op = "semantic_diversity_rerank"
    /\ f_result' = [kind |-> "return",
                    value |-> semantic_diversity_rerank(f_call.results, f_call.top_k,
                                                        f_call.dw, f_call.emb)]
    /\ UNCHANGED <<f_call, ivars, rvars, gvars, avars, cvars>>

\* cross_encoder_rerank on a ranker whose model is missing, fails or scores
CallCrossEncoder ==
    /\ f_result = NoResult
    /\ f_call.op = "cross_encoder_rerank"
    /\ f_result' = [kind |-> "return",
                    value |-> cross_encoder_rerank(f_call.results, f_call.top_k,
                                                   f_call.ce)]
    /\ UNCHANGED <<f_call, ivars, rvars, gvars, avars, cvars>>

\* merge_mcp_results_node on a state that holds local and external results
CallMerge ==
    /\ f_result = NoResult
    /\ f_call.op = "merge_mcp_results_node"
    /\ f_result' = [kind |-> "return",
                    value |-> merge_mcp_results_node(f_call.state)]
    /\ UNCHANGED <<f_call, ivars, rvars, gvars, avars, cvars>>

\* aggregate_analysis_node on a state that holds the analysis results
CallAggregate ==
    /\ f_result = NoResult
    /\ f_call.op = "aggregate_analysis_node"
    /\ f_result' = [kind |-> "return",
                    value |-> aggregate_returns(f_call.state).final_response]
    /\ UNCHANGED <<f_call, ivars, rvars, gvars, avars, cvars>>

CallFingerprint ==
    /\ f_result = NoResult
    /\ f_call.op = "_title_fingerprint"
    /\ f_result' = [kind |-> "return",
                    value |-> _title_fingerprint(f_call.title)]
    /\ UNCHANGED <<f_call, ivars, rvars, gvars, avars, cvars>>

NextCalls ==
    \/ CallFallback
    \/ CallEnsemble
    \/ CallRerankNode
    \/ CallMerge
    \/ CallFingerprint
    \/ CallCrossEncoder
    \/ CallDiversity
    \/ CallAggregate

RerankSpec == InitCalls /\ [][NextCalls]_vars

(***************************************************************************)
(* The gateway to the external tools: invoke_mcp_node, statement by        *)
(* statement                                                               *)
(***************************************************************************)
MCPToolResult(tool_name, success, results, error) ==
    [set |-> TRUE, tool_name |-> tool_name, success |-> success,
     results |-> results, error |-> error]

\* the names _run_mcp_tools dispatches on, with the tool_name each tool
\* writes into its result
ToolOf ==
    [arxiv_latest |-> "arxiv_latest",
     google_scholar |-> "google_scholar",
     semantic_search |-> "semantic_search_external"]

ToolNames == DOMAIN ToolOf \cup {"web_search"}

GsIds == <<"gs_paper_0", "gs_paper_1", "gs_paper_2", "gs_paper_3", "gs_paper_4">>

SemIds == <<"external_sem_0", "external_sem_1", "external_sem_2",
            "external_sem_3", "external_sem_4">>

\* the result lists the try block of a tool can build
ToolResults(name, limit) ==
    CASE name = "arxiv_latest" -> McpResultLists
      [] name = "google_scholar" ->
            {[i \in 1..Min(limit, 5) |->
                RetrievalResult(GsIds[i], GsIds[i], 750, "mcp_google_scholar")]}
      [] name = "semantic_search" ->
            {[i \in 1..Min(limit, 5) |->
                RetrievalResult(SemIds[i], SemIds[i], 700, "mcp_semantic_external")]}

\* the try block of a tool ran to its end
tool_succeeds(name, results) == MCPToolResult(ToolOf[name], TRUE, results, None)

\* the except branch of a tool
tool_fails(name) == MCPToolResult(ToolOf[name], FALSE, <<>>, "str(e)")

\* MCPToolHandler.__aenter__ and __aexit__
__aenter__(s) == "open"

\* variant: the session is left as it is
aexit_leaves_open(s) == s

__aexit__(s) == IF s /= "none" THEN "closed" ELSE s

\* what _run_mcp_tools returns
run_mcp_tools_returns(result) ==
    IF result.set /\ result.success THEN result.results ELSE <<>>

\* variant: the node has no except branch, the exception leaves it
invoke_mcp_reraises(state) == [pc |-> "raised", state |-> state]

\* the except branch of invoke_mcp_node
invoke_mcp_except(state) == [pc |-> "returned", state |-> invoke_mcp_raises(state)]

ResultLimits == {1, 10}

\* the states invoke_mcp_node can be called with: as check_coverage_node
\* leaves them, and with the other tool names a context can carry
GatewayInputs ==
    {[ResearchState(TRUE) EXCEPT !.should_use_mcp = flag, !.mcp_context = ctx] :
        flag \in BOOLEAN,
        ctx \in {Unset} \cup
                {[set |-> TRUE, tool_name |-> name, result_limit |-> limit,
                  timeout |-> 30] : name \in ToolNames, limit \in ResultLimits}}

StartGateway ==
    /\ g_pc = "guard"
    /\ g_state \in GatewayInputs
    /\ session = "none"
    /\ tool_result = NoToolResult

InitGateway ==
    NoIngest /\ NoCall /\ NoResearch /\ NoSearch /\ NoConsumer /\ StartGateway

\* if not state.should_use_mcp or not state.mcp_context: return state
GatewayGuard ==
    /\ g_pc = "guard"
    /\ g_pc' = IF ~g_state.should_use_mcp \/ ~g_state.mcp_context.set
               THEN "returned" ELSE "run"
    /\ UNCHANGED <<g_state, session, tool_result, ivars, fvars, rvars, avars, cvars>>

\* asyncio.run starts the coroutine, which reads the context
RunStarts ==
    /\ g_pc = "run"
    /\ g_pc' = "aenter"
    /\ UNCHANGED <<g_state, session, tool_result, ivars, fvars, rvars, avars, cvars>>

\* asyncio.run raises (a loop is already running in this thread), or the
\* coroutine raises before it opens the session
RunRaises ==
    /\ g_pc = "run"
    /\ LET r == invoke_mcp_except(g_state)
       IN g_pc' = r.pc /\ g_state' = r.state
    /\ UNCHANGED <<session, tool_result, ivars, fvars, rvars, avars, cvars>>

\* async with MCPToolHandler() as handler
SessionOpens ==
    /\ g_pc = "aenter"
    /\ session' = __aenter__(session)
    /\ g_pc' = "dispatch"
    /\ UNCHANGED <<g_state, tool_result, ivars, fvars, rvars, avars, cvars>>

\* the if/elif chain on tool_name; an unknown name returns [] at once
Dispatch ==
    /\ g_pc = "dispatch"
    /\ g_pc' = IF g_state.mcp_context.tool_name \in DOMAIN ToolOf
               THEN "tool" ELSE "aexit"
    /\ UNCHANGED <<g_state, session, tool_result, ivars, fvars, rvars, avars, cvars>>

ToolSucceeds ==
    /\ g_pc = "tool"
    /\ \E results \in ToolResults(g_state.mcp_context.tool_name,
                                  g_state.mcp_context.result_limit) :
          tool_result' = tool_succeeds(g_state.mcp_context.tool_name, results)
    /\ g_pc' = "aexit"
    /\ UNCHANGED <<g_state, session, ivars, fvars, rvars, avars, cvars>>

ToolFails ==
    /\ g_pc = "tool"
    /\ tool_result' = tool_fails(g_state.mcp_context.tool_name)
    /\ g_pc' = "aexit"
    /\ UNCHANGED <<g_state, session, ivars, fvars, rvars, avars, cvars>>

\* the tool never responds; nothing in the handler, the coroutine or the
\* node bounds the wait
ToolHangs ==
    /\ g_pc = "tool"
    /\ g_pc' = "hung"
    /\ UNCHANGED <<g_state, session, tool_result, ivars, fvars, rvars, avars, cvars>>

\* the async with block is left
SessionCloses ==
    /\ g_pc = "aexit"
    /\ session' = __aexit__(session)
    /\ g_pc' = "assign"
    /\ UNCHANGED <<g_state, tool_result, ivars, fvars, rvars, avars, cvars>>

\* state.mcp_results and state.mcp_tool_result are assigned, the node returns
GatewayReturns ==
    /\ g_pc = "assign"
    /\ g_state' = invoke_mcp_returns(g_state, run_mcp_tools_returns(tool_result))
    /\ g_pc' = "returned"
    /\ UNCHANGED <<session, tool_result, ivars, fvars, rvars, avars, cvars>>

NextGateway ==
    \/ GatewayGuard
    \/ RunStarts
    \/ RunRaises
    \/ SessionOpens
    \/ Dispatch
    \/ ToolSucceeds
    \/ ToolFails
    \/ ToolHangs
    \/ SessionCloses
    \/ GatewayReturns

\* the event loop runs the coroutine on until it awaits something that
\* never completes
GatewaySpec == InitGateway /\ [][NextGateway]_vars /\ WF_vars(NextGateway)

(***************************************************************************)
(* _iter_search_with_backoff: the generator around search.results()        *)
(***************************************************************************)
max_retries == 6

\* getattr(err, "status_code", None) found no such attribute
NoStatus == -1

\* the HTTP statuses a page request can end with
HttpStatuses == {404, 429, 500, 503}

\* what search.results() can raise: an arxiv.HTTPError, with the status of
\* the response, the status_code attribute the handler reads (absent or
\* that status) and whether its text contains "429" or "503"; or another
\* exception
SearchErrors ==
    UNION {{[kind |-> "HTTPError", http |-> h, status_code |-> sc,
             text_matches |-> t] : sc \in {NoStatus, h}, t \in BOOLEAN} :
           h \in HttpStatuses}
    \cup {[kind |-> "Exception", http |-> 0, status_code |-> NoStatus,
           text_matches |-> FALSE]}

NoError == [kind |-> "none", http |-> 0, status_code |-> NoStatus,
            text_matches |-> FALSE]

\* status == 429 or (status is not None and 500 <= status < 600)
\* or "429" in str(err) or "503" in str(err)
retryable(err) ==
    \/ err.status_code = 429
    \/ (err.status_code /= NoStatus /\ 500 <= err.status_code /\ err.status_code < 600)
    \/ err.text_matches

\* the except branch: where the generator goes and the new value of attempt
handle_error(err, att) ==
    IF err.kind /= "HTTPError" THEN [pc |-> "raised", attempt |-> att]
    ELSE IF ~retryable(err) THEN [pc |-> "raised", attempt |-> att]
    ELSE IF att + 1 > max_retries THEN [pc |-> "raised", attempt |-> att + 1]
    ELSE [pc |-> "iterating", attempt |-> att + 1]

StartSearch ==
    /\ a_pc = "iterating"
    /\ attempt = 0
    /\ a_calls = 1
    /\ a_yielded = 0
    /\ a_err = NoError

InitSearch ==
    NoIngest /\ NoCall /\ NoResearch /\ NoGateway /\ NoConsumer /\ StartSearch

\* search.results() gives one more result, which is yielded
IterYields ==
    /\ a_pc = "iterating"
    /\ a_yielded < MaxResults
    /\ a_yielded' = a_yielded + 1
    /\ UNCHANGED <<a_pc, attempt, a_calls, a_err, ivars, fvars, rvars, gvars, cvars>>

\* search.results() is exhausted: return
IterReturns ==
    /\ a_pc = "iterating"
    /\ a_pc' = "returned"
    /\ UNCHANGED <<attempt, a_calls, a_yielded, a_err, ivars, fvars, rvars, gvars, cvars>>

\* search.results() raises an error that the handler answers with a sleep
\* and a new iteration
IterRetries ==
    /\ a_pc = "iterating"
    /\ \E err \in SearchErrors :
          /\ handle_error(err, attempt).pc = "iterating"
          /\ attempt' = handle_error(err, attempt).attempt
          /\ a_err' = err
    /\ a_calls' = a_calls + 1
    /\ UNCHANGED <<a_pc, a_yielded, ivars, fvars, rvars, gvars, cvars>>

\* search.results() raises an error that leaves the generator
IterRaises ==
    /\ a_pc = "iterating"
    /\ \E err \in SearchErrors :
          /\ handle_error(err, attempt).pc = "raised"
          /\ attempt' = handle_error(err, attempt).attempt
          /\ a_err' = err
    /\ a_pc' = "raised"
    /\ UNCHANGED <<a_calls, a_yielded, ivars, fvars, rvars, gvars, cvars>>

NextSearch ==
    \/ IterYields
    \/ IterReturns
    \/ IterRetries
    \/ IterRaises

\* the consumer drives the generator until it returns or raises
SearchSpec == InitSearch /\ [][NextSearch]_vars /\ WF_vars(NextSearch)

(***************************************************************************)
(* The WebSocket consumers (ws_consumers.py): IngestionProgressConsumer    *)
(* and ResearchAnalysisConsumer have the same structure. A start message   *)
(* creates a task that iterates graph.stream(state) on the event loop of   *)
(* the connection; a task is a record                                      *)
(*   pc          the statement it is at                                    *)
(*   started     nodes of the graph whose execution has begun              *)
(*   nodes       nodes whose state the generator has yielded               *)
(*   sent        progress messages the task has sent                       *)
(*   total       nodes the run executes                                    *)
(*   cancelling  Task.cancel() was called and not yet delivered            *)
(***************************************************************************)
Consumers == {"ingestion", "analysis"}

\* graph.stream is a generator the consumer iterates until it is exhausted;
\* the consumer code does not depend on how many states it yields
RunLengths == {2, 3}

Finished(task) == task.pc \in {"done", "cancelled"}

\* variant: the graph runs in an executor thread and the task awaits it
NodeAwaitsExecutor == FALSE

\* `for step in graph.stream(state)` runs each node synchronously in the
\* task: while a node executes, the event loop runs nothing else
NodeHoldsLoop == TRUE

\* the event loop can run a handler or resume another task
LoopFree == \A t \in 1..Len(c_tasks) : c_tasks[t].pc = "in_node" => ~NodeHoldsLoop

\* the task is suspended: not yet started, or at `await self.send(...)` or
\* `await asyncio.sleep(0.1)`; CancelledError is raised only there
Suspended(task) ==
    \/ task.pc \in {"created", "send", "sleep"}
    \/ task.pc = "in_node" /\ ~NodeHoldsLoop

NewTask(total) ==
    [pc |-> "created", started |-> 0, nodes |-> 0, sent |-> 0, total |-> total,
     cancelling |-> FALSE]

StartConsumer ==
    /\ c_conn \in Consumers
    /\ c_tasks = <<>>
    /\ ingestion_task = 0
    /\ c_sent = NoMessage
    /\ c_event = "none"

InitConsumer ==
    NoIngest /\ NoCall /\ NoResearch /\ NoGateway /\ NoSearch /\ StartConsumer

\* receive -> handle_start_ingestion / handle_execute_analysis: the
\* arguments are validated, a task is created and stored in the attribute,
\* whatever the attribute held
ReceiveStart ==
    /\ c_conn \in Consumers
    /\ LoopFree
    /\ Len(c_tasks) < MaxStarts
    /\ \E valid \in BOOLEAN :
          IF valid
          THEN /\ \E total \in RunLengths :
                     c_tasks' = Append(c_tasks, NewTask(total))
               /\ ingestion_task' = Len(c_tasks) + 1
               /\ UNCHANGED c_sent
          ELSE /\ c_sent' = [type |-> "error", started |-> 0, nodes |-> 0]
               /\ UNCHANGED <<c_tasks, ingestion_task>>
    /\ c_event' = "start"
    /\ UNCHANGED <<c_conn, ivars, fvars, rvars, gvars, avars>>

\* self.ingestion_task.cancel() when the attribute holds a task not done
CancelAttribute(tasks) ==
    IF ingestion_task /= 0 /\ ~Finished(tasks[ingestion_task])
    THEN [tasks EXCEPT ![ingestion_task].cancelling = TRUE]
    ELSE tasks

\* receive -> handle_cancel
ReceiveCancel ==
    /\ c_conn \in Consumers
    /\ LoopFree
    /\ c_tasks' = CancelAttribute(c_tasks)
    /\ c_sent' = IF ingestion_task /= 0 /\ ~Finished(c_tasks[ingestion_task])
                 THEN [type |-> "cancelled", started |-> 0, nodes |-> 0]
                 ELSE c_sent
    /\ c_event' = "cancel"
    /\ UNCHANGED <<c_conn, ingestion_task, ivars, fvars, rvars, gvars, avars>>

\* disconnect
Disconnect ==
    /\ c_conn \in Consumers
    /\ LoopFree
    /\ c_tasks' = CancelAttribute(c_tasks)
    /\ c_conn' = "closed"
    /\ c_event' = "disconnect"
    /\ UNCHANGED <<ingestion_task, c_sent, ivars, fvars, rvars, gvars, avars>>

\* the task is resumed and the generator starts the next node
NodeBegins(t) ==
    /\ LoopFree
    /\ c_tasks[t].pc \in {"created", "sleep"}
    /\ ~c_tasks[t].cancelling
    /\ c_tasks[t].nodes < c_tasks[t].total
    /\ c_tasks' = [c_tasks EXCEPT ![t].pc = "in_node", ![t].started = @ + 1]
    /\ UNCHANGED <<c_conn, ingestion_task, c_sent, c_event>>
    /\ UNCHANGED <<ivars, fvars, rvars, gvars, avars>>

\* the node returns and the generator yields the state to the loop body
NodeEnds(t) ==
    /\ c_tasks[t].pc = "in_node"
    /\ c_tasks' = [c_tasks EXCEPT ![t].pc = "send", ![t].nodes = @ + 1]
    /\ UNCHANGED <<c_conn, ingestion_task, c_sent, c_event>>
    /\ UNCHANGED <<ivars, fvars, rvars, gvars, avars>>

\* the loop body sends what it reads from the yielded state: the ingestion
\* consumer one progress message, the analysis consumer a message for
\* non-empty retrieval_results and one for non-empty ranked_results
SendProgress(t) ==
    /\ LoopFree
    /\ c_tasks[t].pc = "send"
    /\ ~c_tasks[t].cancelling
    /\ \E has_results \in BOOLEAN :
          IF c_conn = "ingestion" \/ has_results
          THEN /\ c_sent' = [type |-> "progress", started |-> c_tasks[t].started,
                             nodes |-> c_tasks[t].nodes]
               /\ c_tasks' = [c_tasks EXCEPT ![t].pc = "sleep", ![t].sent = @ + 1]
          ELSE /\ c_sent' = c_sent
               /\ c_tasks' = [c_tasks EXCEPT ![t].pc = "sleep"]
    /\ UNCHANGED <<c_conn, ingestion_task, c_event>>
    /\ UNCHANGED <<ivars, fvars, rvars, gvars, avars>>

\* the generator is exhausted: the task sends "complete" and ends
TaskCompletes(t) ==
    /\ LoopFree
    /\ c_tasks[t].pc = "sleep"
    /\ ~c_tasks[t].cancelling
    /\ c_tasks[t].nodes = c_tasks[t].total
    /\ c_sent' = [type |-> "complete", started |-> c_tasks[t].started,
                  nodes |-> c_tasks[t].nodes]
    /\ c_tasks' = [c_tasks EXCEPT ![t].pc = "done"]
    /\ UNCHANGED <<c_conn, ingestion_task, c_event>>
    /\ UNCHANGED <<ivars, fvars, rvars, gvars, avars>>

\* CancelledError is raised in the suspended task: a task that never ran
\* just ends, a running one sends the error message of its handler
CancelDelivered(t) ==
    /\ LoopFree
    /\ c_tasks[t].cancelling
    /\ Suspended(c_tasks[t])
    /\ c_sent' = IF c_tasks[t].pc = "created" THEN c_sent
                 ELSE [type |-> "error", started |-> c_tasks[t].started,
                       nodes |-> c_tasks[t].nodes]
    /\ c_tasks' = [c_tasks EXCEPT ![t].pc = "cancelled", ![t].cancelling = FALSE]
    /\ UNCHANGED <<c_conn, ingestion_task, c_event>>
    /\ UNCHANGED <<ivars, fvars, rvars, gvars, avars>>

TaskStep ==
    \E t \in 1..Len(c_tasks) :
        \/ NodeBegins(t)
        \/ NodeEnds(t)
        \/ SendProgress(t)
        \/ TaskCompletes(t)
        \/ CancelDelivered(t)

NextConsumer ==
    \/ ReceiveStart
    \/ ReceiveCancel
    \/ Disconnect
    \/ TaskStep

ConsumerSpec == InitConsumer /\ [][NextConsumer]_vars

(***************************************************************************)
(* Properties of the ingestion workflow                                    *)
(***************************************************************************)
Executed(node) == node \in Range(i_trace)

\* the duplicate check ran and returned normally (its except branch, the only
\* writer of this message, sends the run straight to finalize)
DupCheckReturned ==
    /\ Executed("check_duplicates")
    /\ ingestion_state.error /= "Duplicate check failed"

DupCheckRaised ==
    /\ Executed("check_duplicates")
    /\ ingestion_state.error = "Duplicate check failed"

CountsConsistent ==
    ingestion_state.docs_new =
        ingestion_state.docs_found - ingestion_state.docs_existing

\* C1: once a node has set status to ERROR, status is ERROR in every later
\* state of the run.
C1_ErrorIsTerminal ==
    [][ingestion_state.status = "ERROR" => ingestion_state'.status = "ERROR"]_vars

\* C2 as stated: docs_new = docs_found - docs_existing in the state emitted
\* after every node.
C2_CountsAlways == Emitted => CountsConsistent

\* C2: docs_new = docs_found - docs_existing holds before the first node
\* and in every state from the return of a duplicate check that did not
\* raise; until then docs_new and docs_existing keep their initial 0.
C2_CountsAfterDupCheck ==
    /\ (i_trace = <<>> \/ DupCheckReturned) => CountsConsistent
    /\ ~DupCheckReturned => /\ ingestion_state.docs_new = 0
                            /\ ingestion_state.docs_existing = 0

C2_Witness ==
    /\ i_node = "END"
    /\ DupCheckReturned
    /\ ingestion_state.docs_existing > 0
    /\ ingestion_state.docs_new > 0

\* C3: progress_percent never decreases from one state of a run to the
\* next, inside the ingestion loop and on error paths too, and stays
\* within [0, 100].
C3_ProgressMonotone ==
    [][/\ ingestion_state'.progress_percent >= ingestion_state.progress_percent
       /\ ingestion_state'.progress_percent >= 0
       /\ ingestion_state'.progress_percent <= 100 * PScale]_vars

C3_Witness ==
    /\ i_node = "ingest_loop"
    /\ Len(items) = 2
    /\ idx = 1
    /\ ingestion_state.progress_percent = 65 * PScale

NoIngestAndCompleted ==
    /\ ingestion_state.status /= "INGESTING"
    /\ ~Executed("ingest_pdfs")
    /\ i_node \in {"finalize", "END"}
    /\ i_node = "END" =>
          /\ i_trace = <<"search_arxiv", "check_duplicates", "finalize">>
          /\ ingestion_state.status = "COMPLETED"
          /\ ingestion_state.docs_new = 0
          /\ ingestion_state.progress_percent = 100 * PScale

\* C4 as stated: whenever the state after the duplicate check has
\* docs_new = 0, the run goes straight to finalize, is never INGESTING and
\* ends COMPLETED with docs_new = 0 and progress_percent = 100.
C4_NoNewDocsCompletes ==
    (Executed("check_duplicates") /\ ingestion_state.docs_new = 0)
        => NoIngestAndCompleted

\* C4: whenever the duplicate check returns without raising and leaves
\* docs_new = 0, the run goes straight to finalize, is never INGESTING and
\* ends COMPLETED with docs_new = 0 and progress_percent = 100.
C4_NoNewDocsCompletesUnlessRaised ==
    (DupCheckReturned /\ ingestion_state.docs_new = 0) => NoIngestAndCompleted

C4_Witness ==
    /\ i_node = "END"
    /\ DupCheckReturned
    /\ ingestion_state.docs_found > 0
    /\ ingestion_state.docs_new = 0
    /\ ingestion_state.status = "COMPLETED"

\* C6: when the arXiv search fails after exhausting its retries, the
\* terminal state of the run has a non-null error string.
C6_SearchFailureRecorded ==
    (i_node = "END" /\ search_exhausted) => ingestion_state.error /= None

(***************************************************************************)
(* Properties of the ranker methods                                        *)
(***************************************************************************)
Returned(op) == f_call.op = op /\ f_result /= NoResult

\* value[i] is the RankedResult of results[p[i]] with the scores of the
\* fallback strategy and rank i
IsFallbackEntry(value, results, p, i) ==
    /\ value[i].chunk_id = results[p[i]].chunk_id
    /\ value[i].paper_id = results[p[i]].paper_id
    /\ value[i].source = results[p[i]].source
    /\ value[i].primary_score = results[p[i]].score
    /\ value[i].rerank_score = results[p[i]].score
    /\ value[i].combined_score = results[p[i]].score
    /\ value[i].rank = i

\* index a of results comes before index b in the order "score
\* non-increasing, input order among equal scores"
Before(results, a, b) ==
    \/ results[a].score > results[b].score
    \/ results[a].score = results[b].score /\ a < b

\* value is the list of the first Len(value) results in that order
IsSortedTop(value, results) ==
    \E p \in [1..Len(value) -> 1..Len(results)] :
        /\ \A i \in 1..Len(value) : IsFallbackEntry(value, results, p, i)
        /\ \A i, j \in 1..Len(value) : i < j => Before(results, p[i], p[j])
        /\ \A q \in 1..Len(results) :
              (\A i \in 1..Len(value) : p[i] /= q)
                 => \A i \in 1..Len(value) : Before(results, p[i], q)

\* C8 as stated: for every candidate list and top_k, _fallback_rerank
\* returns min(top_k, N) results sorted by primary score non-increasing,
\* input order kept among equal scores, ranks 1..length and
\* rerank_score = combined_score = primary_score.
C8_FallbackAnyTopK ==
    Returned("_fallback_rerank") =>
        /\ Len(f_result.value) = Min(f_call.top_k, Len(f_call.results))
        /\ IsSortedTop(f_result.value, f_call.results)

\* C8: the same for every top_k >= 0; for a negative top_k the slice
\* [:top_k] keeps all but the last -top_k of the sorted results.
C8_FallbackNonNegativeTopK ==
    Returned("_fallback_rerank") =>
        /\ f_call.top_k >= 0 =>
              Len(f_result.value) = Min(f_call.top_k, Len(f_call.results))
        /\ f_call.top_k < 0 =>
              Len(f_result.value) = Max(Len(f_call.results) + f_call.top_k, 0)
        /\ IsSortedTop(f_result.value, f_call.results)

C8_Witness ==
    /\ Returned("_fallback_rerank")
    /\ Len(f_call.results) = 2
    /\ f_call.results[1].score = f_call.results[2].score
    /\ f_call.results[1].chunk_id /= f_call.results[2].chunk_id
    /\ f_call.top_k = 2
    /\ Len(f_result.value) = 2

BadWeights(call) ==
    \/ Len(call.strategies) /= Len(call.weights)
    \/ Abs(SumSeq(call.weights) - 1000) > 10

\* C9: for every input, the empty candidate list included, ensemble_rerank
\* called with weights whose sum is more than 0.01 away from 1.0, or with
\* lists of different lengths, fails with a configuration error, runs no
\* member strategy and computes no score.
C9_BadWeightsRejected ==
    (Returned("ensemble_rerank") /\ BadWeights(f_call)) =>
        /\ f_result.kind = "ValueError"
        /\ f_result.members_run = <<>>
        /\ ~f_result.scored

(***************************************************************************)
(* Properties of the two workflows together                                *)
(***************************************************************************)
IngestStarted == i_node /= "END" \/ i_trace /= <<>>

IngestEnded == i_node = "END" /\ i_trace /= <<>>

ResearchStarted == r_todo /= {} \/ r_runs["retrieve"] > 0

ResearchEnded == r_todo = {} /\ r_runs["retrieve"] > 0

C7_FailedRunHasErrorAndResponse ==
    (ResearchEnded /\ r_failed) =>
        /\ research_state.error /= None
        /\ research_state.final_response.set

ChunkIds(s) == {s[i].chunk_id : i \in 1..Len(s)}

UnionIds(state) == ChunkIds(state.ranked_results) \cup ChunkIds(state.mcp_results)

\* the step taken is an execution of merge_mcp
MergeStep ==
    /\ "merge_mcp" \in r_todo
    /\ r_runs'["merge_mcp"] = r_runs["merge_mcp"] + 1

\* out has the entry of loc, with its scores and source unchanged
KeptLocal(loc, out) ==
    \E k \in 1..Len(out) :
        /\ out[k].chunk_id = loc.chunk_id
        /\ out[k].paper_id = loc.paper_id
        /\ out[k].primary_score = loc.primary_score
        /\ out[k].rerank_score = loc.rerank_score
        /\ out[k].combined_score = loc.combined_score
        /\ out[k].source = loc.source

IsRanked(l) ==
    /\ \A i \in 1..Len(l) : l[i].rank = i
    /\ \A i \in 1..(Len(l) - 1) : l[i].combined_score >= l[i + 1].combined_score

\* C11: the ranked_results that the rerank node produces have ranks exactly
\* 1..N in list order and combined_score non-increasing in rank order, for
\* each configured strategy (cross_encoder, semantic_diversity, ensemble,
\* fallback).
C11_RerankedByScore ==
    Returned("rerank_results_node") => IsRanked(f_result.value)

\* C12: applying merge_mcp_results_node a second time, with the same
\* external results, to the state the first application produced leaves
\* ranked_results (entries, order, ranks, scores) unchanged, also when
\* scores tie and when the first merge truncated entries.
C12_MergeIdempotent ==
    Returned("merge_mcp_results_node") =>
        /\ f_result.value.mcp_results = f_call.state.mcp_results
        /\ merge_mcp_results_node(f_result.value).ranked_results
             = f_result.value.ranked_results

\* C13: _title_fingerprint is idempotent: the fingerprint of a fingerprint
\* is that fingerprint, for every title.
C13_FingerprintIdempotent ==
    Returned("_title_fingerprint") =>
        _title_fingerprint(f_result.value) = f_result.value

\* a title whose fingerprint differs from it: upper case lowered, the
\* punctuation mark turned into a blank, the stop word "a" dropped
C13_Witness ==
    /\ Returned("_title_fingerprint")
    /\ f_call.title = <<"A", "-", "n", "A">>
    /\ f_result.value = <<"n", "a">>

\* external lookup is available, requested, and the coverage is strictly
\* below the threshold
LowCoverage ==
    /\ research_state.mcp_enabled
    /\ research_state.use_mcp
    /\ research_state.coverage_score < research_state.coverage_threshold

\* the node has run or is due to run
RanOrDue(n) == r_runs[n] > 0 \/ n \in r_todo \cup r_next

C15_ToolFailureStaysInside ==
    /\ g_pc /= "raised"
    /\ (tool_result.set /\ g_pc /= "tool" /\ ~tool_result.success) =>
          /\ tool_result.results = <<>>
          /\ tool_result.error /= None
    /\ (g_pc = "returned" /\ tool_result.set /\ ~tool_result.success) =>
          /\ g_state.mcp_results = <<>>
          /\ g_state.mcp_tool_result.set
          /\ ~g_state.mcp_tool_result.success
    /\ (g_pc = "returned" /\ g_state.should_use_mcp /\ g_state.mcp_context.set
          /\ g_state.mcp_context.tool_name \notin DOMAIN ToolOf
          /\ g_state.error = None) =>
          g_state.mcp_results = <<>>

\* the node has returned after the exception of asyncio.run was caught
C15_Witness ==
    /\ g_pc = "returned"
    /\ g_state.error = "MCP invocation failed"
    /\ g_state.mcp_context.set
    /\ g_state.mcp_context.tool_name = "web_search"
    /\ g_state.mcp_results = <<>>

\* C16: the session is opened before any tool is invoked and closed when
\* the gateway call ends, on every path (tool success, tool failure,
\* unknown tool name, exception): no tool runs without an open session and
\* no session is open after invoke_mcp_node has returned.
C16_SessionScoped ==
    /\ g_pc \in {"tool", "hung"} => session = "open"
    /\ g_pc \in {"returned", "raised"} => session /= "open"
    /\ tool_result.set => session \in {"open", "closed"}

\* the node has returned after a tool failed inside an open session
C16_Witness ==
    /\ g_pc = "returned"
    /\ session = "closed"
    /\ tool_result.set
    /\ ~tool_result.success
    /\ tool_result.tool_name = "google_scholar"

\* C17: the tool invocation runs under a timeout: when the invoked tool
\* never responds, the gateway call still ends, as a failure with empty
\* results.
C17_HungToolTimesOut ==
    (g_pc = "hung") ~>
        (/\ g_pc = "returned"
         /\ g_state.mcp_results = <<>>
         /\ g_state.mcp_tool_result.set
         /\ ~g_state.mcp_tool_result.success)

(***************************************************************************)
(* Properties of the arXiv search                                          *)
(***************************************************************************)
\* the response was HTTP 429 or 5xx
Transient(err) ==
    /\ err.kind = "HTTPError"
    /\ err.http = 429 \/ (500 <= err.http /\ err.http < 600)

\* the step taken starts search.results() again
RetryStep == a_calls' = a_calls + 1

\* the step taken is search.results() raising an error
ErrorStep == a_pc = "iterating" /\ (RetryStep \/ a_pc' = "raised")

\* C18: the arXiv search retries only on transient errors (HTTP 429 or 5xx)
\* and at most max_retries times: whatever the errors, the iterator ends
\* after at most max_retries + 1 attempts, raising the error again once the
\* bound is exceeded, and an error that is not transient is raised at once,
\* without a retry.
C18_RetriesOnlyTransientBounded ==
    /\ [](a_calls <= max_retries + 1)
    /\ [][RetryStep => Transient(a_err')]_vars
    /\ [][(ErrorStep /\ ~Transient(a_err')) => a_pc' = "raised"]_vars
    /\ [][(ErrorStep /\ retryable(a_err') /\ a_calls = max_retries + 1)
            => a_pc' = "raised"]_vars
    /\ (a_pc = "iterating") ~> (a_pc \in {"returned", "raised"})

(***************************************************************************)
(* Properties of the order of the research nodes                           *)
(***************************************************************************)
\* node a has run whenever node b has run or is due to run
RunsBefore(a, b) == RanOrDue(b) => r_runs[a] > 0

\* C19: in every research run aggregate executes exactly once, and only
\* after all four analysis stages have executed; the stages before them run
\* in the order retrieve, rerank, check_coverage, then optionally
\* invoke_mcp followed by merge_mcp.
C19_AggregateOnceAfterAnalyses ==
    /\ r_runs["aggregate"] <= 1
    /\ ResearchEnded => r_runs["aggregate"] = 1
    /\ r_runs["aggregate"] > 0 => \A n \in AnalysisNodes : r_runs[n] > 0
    /\ RunsBefore("retrieve", "rerank")
    /\ RunsBefore("rerank", "check_coverage")
    /\ RunsBefore("check_coverage", "invoke_mcp")
    /\ RunsBefore("invoke_mcp", "merge_mcp")
    /\ RunsBefore("check_coverage", "gap_analysis")
    /\ (RanOrDue("gap_analysis") /\ r_runs["invoke_mcp"] > 0) =>
          r_runs["merge_mcp"] > 0

(***************************************************************************)
(* Properties of the analysis nodes                                        *)
(***************************************************************************)
\* the step taken is an execution of analysis node n
AnalysisStep(n) == n \in r_todo /\ r_runs'[n] = r_runs[n] + 1

\* C20: each of the four analysis nodes, run on non-empty ranked results
\* with a generator that answers with something that is not JSON or that
\* fails, leaves a non-null heuristic result whose confidence_score is
\* strictly lower than the confidence of that node's result on a successful
\* parse; the node raises nothing and leaves state.error unchanged.
C20_HeuristicLowerConfidence ==
    [][\A n \in AnalysisNodes :
        (AnalysisStep(n) /\ research_state.ranked_results /= <<>>) =>
            LET result == research_state'[AnalysisField[n]]
            IN /\ result.set
               /\ result.basis \in {"llm", "heuristic"}
               /\ result.basis = "llm" =>
                     result.confidence_score = LLMConfidence[n]
               /\ result.basis = "heuristic" =>
                     /\ result.confidence_score < LLMConfidence[n]
                     /\ result.confidence_score > 0
               /\ research_state'.error = research_state.error
               /\ r_failed' = r_failed]_vars

\* all four analysis nodes have left a heuristic result for ranked results
\* that are not empty
C20_Witness ==
    /\ research_state.ranked_results /= <<>>
    /\ research_state.error = None
    /\ \A n \in AnalysisNodes :
          /\ r_runs[n] = 1
          /\ research_state[AnalysisField[n]].set
          /\ research_state[AnalysisField[n]].basis = "heuristic"

\* the four analysis nodes have all run
AllAnalysesRan == \A n \in AnalysisNodes : r_runs[n] > 0

\* C21: when ranked_results is empty as the analysis starts, each of the
\* four analysis nodes stores a non-null placeholder result with
\* confidence_score 0 and raises nothing, so that after all four have run
\* no analysis field is null and aggregate reports average_confidence 0.0.
C21_EmptyResultsGivePlaceholders ==
    /\ [](research_state.ranked_results = <<>> =>
            /\ \A n \in AnalysisNodes :
                  r_runs[n] > 0 =>
                     /\ research_state[AnalysisField[n]].set
                     /\ research_state[AnalysisField[n]].confidence_score = 0
                     /\ research_state[AnalysisField[n]].basis = "placeholder"
            /\ research_state.final_response.set =>
                  research_state.final_response.confidence_sum = 0
            /\ (research_state.final_response.set /\ AllAnalysesRan
                  /\ research_state.final_response.confidence_count = 4) =>
                  \A n \in AnalysisNodes :
                     research_state.final_response.analysis[AnalysisField[n]].set)
    /\ [][\A n \in AnalysisNodes :
            (AnalysisStep(n) /\ research_state.ranked_results = <<>>) =>
               /\ research_state'.error = research_state.error
               /\ r_failed' = r_failed]_vars

\* a run whose retrieval failed has ended: the four placeholders are in
\* the response of aggregate
C21_Witness ==
    /\ ResearchEnded
    /\ research_state.error = "Retrieval failed"
    /\ research_state.ranked_results = <<>>
    /\ AllAnalysesRan
    /\ research_state.final_response.set
    /\ research_state.final_response.confidence_count = 4
    /\ research_state.final_response.confidence_sum = 0

(***************************************************************************)
(* Properties of the strategies of the ranker                              *)
(***************************************************************************)
\* C22: when the cross-encoder model could not be loaded, or its prediction
\* raises, cross_encoder_rerank returns exactly the list _fallback_rerank
\* returns for the same candidates and top_k, raises nothing, and the
\* rerank node does not set the error field of the research state.
C22_CrossEncoderFallsBack ==
    /\ (Returned("cross_encoder_rerank") /\ f_call.ce.kind \in {"unavailable", "raises"}) =>
          /\ f_result.kind = "return"
          /\ f_result.value = _fallback_rerank(f_call.results, f_call.top_k)
    /\ (Returned("rerank_results_node")
          /\ f_call.settings.rerank_strategy = "cross_encoder"
          /\ f_result.ce \in {"unavailable", "raises"}) =>
          /\ f_result.kind = "return"
          /\ f_result.error = None
          /\ f_result.value = _fallback_rerank(f_call.results,
                                               f_call.settings.rerank_top_k)

\* the prediction raised for two candidates with top_k 1: the better one
\* is returned with the scores of the fallback
C22_Witness ==
    /\ Returned("cross_encoder_rerank")
    /\ f_call.ce.kind = "raises"
    /\ Len(f_call.results) = 2
    /\ f_call.results[1].score < f_call.results[2].score
    /\ f_call.top_k = 1
    /\ Len(f_result.value) = 1
    /\ f_result.value[1].chunk_id = f_call.results[2].chunk_id
    /\ f_result.value[1].rerank_score = f_call.results[2].score

\* the pairs of candidates whose embeddings are at similarity 1
NearDuplicatePairs(m) ==
    {pr \in UnorderedPairs(DOMAIN m) : \A i, j \in pr : m[i][j] = ScoreOne}

\* a selection of 3 from 5 candidates, exactly two of them near-duplicates,
\* with the weight the workflow passes
NearDupCall ==
    /\ Returned("semantic_diversity_rerank")
    /\ Len(f_call.results) = 5
    /\ f_call.top_k = 3
    /\ f_call.dw = 3
    /\ f_call.emb.kind = "sims"
    /\ Cardinality(NearDuplicatePairs(f_call.emb.m)) = 1

BothSelected(pr) ==
    \A i \in pr : \E k \in 1..Len(f_result.value) :
        f_result.value[k].chunk_id = f_call.results[i].chunk_id

\* C23 as stated: the selection of 3 from 5 never returns both members of
\* the near-duplicate pair, whatever the primary scores and the other
\* similarities are
C23_NeverBothNearDuplicates ==
    NearDupCall =>
        \A pr \in NearDuplicatePairs(f_call.emb.m) : ~BothSelected(pr)

\* C23 amended: the selection of 3 from 5 never returns both members of the
\* near-duplicate pair when every other pair of candidates is at similarity
\* 0.5 or less
C23_NeverBothWhenOthersApart ==
    (NearDupCall
       /\ \A pr \in UnorderedPairs(1..5) \ NearDuplicatePairs(f_call.emb.m) :
             \A i, j \in pr : i /= j => f_call.emb.m[i][j] <= 500) =>
        /\ Len(f_result.value) = 3
        /\ \A pr \in NearDuplicatePairs(f_call.emb.m) : ~BothSelected(pr)

\* the near-duplicates c1 and c2 have the best scores and the others are at
\* similarity 0.5 to them and to each other: c1 and two of the others come back
C23_Witness ==
    /\ NearDupCall
    /\ NearDuplicatePairs(f_call.emb.m) = {{1, 2}}
    /\ f_call.results[1].score = ScoreOne
    /\ f_call.results[2].score = ScoreOne
    /\ \A i \in 3..5 : f_call.results[i].score = 0
    /\ \A i \in 1..5 : \A j \in 3..5 : i /= j => f_call.emb.m[i][j] = 500
    /\ f_result.value[1].chunk_id = "c1"
    /\ \A k \in 2..3 : f_result.value[k].chunk_id \in {"c3", "c4", "c5"}

(***************************************************************************)
(* Properties of the duplicate check and of the ingest node                *)
(***************************************************************************)
\* a step in which check_duplicates_node returns without raising
DupCheckStep ==
    /\ i_node = "check_duplicates"
    /\ Executed("check_duplicates")'
    /\ ingestion_state'.status /= "ERROR"

\* C24: a found paper whose title fingerprints to the empty string and whose
\* arxiv_id is not among the known ids is classified as new by
\* check_duplicates (kept in arxiv_results, counted in docs_new), even when
\* the persisted fingerprints contain the empty string.
C24_EmptyFingerprintIsNew ==
    [][DupCheckStep =>
          \A i \in 1..Len(ingestion_state.arxiv_results) :
              LET p == ingestion_state.arxiv_results[i]
              IN (/\ _title_fingerprint(p.title) = <<>>
                  /\ p.arxiv_id \notin existing_arxiv_ids(papers_table)) =>
                     /\ p \in Range(ingestion_state'.arxiv_results)
                     /\ ingestion_state'.docs_new
                           = Len(ingestion_state'.arxiv_results)
                     /\ ingestion_state'.docs_new > 0]_vars

\* a step of the loop of ingest_pdfs_node that handles the next item
ItemStep == i_node = "ingest_loop" /\ idx' = idx + 1

\* the item handled by the step failed: its file is missing or parsing,
\* chunking, embedding, the upsert or the insert of its metadata failed, so
\* that the papers table has no row for it after the step
ItemFailed ==
    /\ ItemStep
    /\ items[idx + 1].arxiv_id \notin existing_arxiv_ids(papers_table')

\* C25: a failure on one item of the ingest node adds exactly one to the
\* failure count and one (path, error) entry to failed_pdfs, does not set
\* the status to ERROR, and the loop goes on with the later items.
C25_ItemFailureCounted ==
    [][ItemFailed =>
          /\ failed' = failed + 1
          /\ Len(ingestion_state'.failed_pdfs) = Len(ingestion_state.failed_pdfs) + 1
          /\ ingestion_state'.failed_pdfs[Len(ingestion_state'.failed_pdfs)][1]
                = pdf_path(items[idx + 1])
          /\ ingestion_state'.status = "INGESTING"
          /\ i_node' = "ingest_loop"
          /\ items' = items]_vars

\* C26: progress_percent is 25 after the search node, 40 after the duplicate
\* check when new documents exist, 40 + 50*i/n (never above 90) after the
\* i-th of n items of the ingest node, and 100 after finalize, whether the
\* run is COMPLETED or ERROR.
C26_StagedProgress ==
    [][/\ (i_node = "search_arxiv" /\ ingestion_state'.status /= "ERROR") =>
             ingestion_state'.progress_percent = 25 * PScale
       /\ (DupCheckStep /\ ingestion_state'.docs_new > 0) =>
             ingestion_state'.progress_percent = 40 * PScale
       /\ ItemStep =>
             /\ ingestion_state'.progress_percent * Len(items)
                   = (40 * Len(items) + 50 * idx') * PScale
             /\ ingestion_state'.progress_percent <= 90 * PScale
       /\ i_node = "finalize" =>
             /\ ingestion_state'.progress_percent = 100 * PScale
             /\ ingestion_state'.status \in {"COMPLETED", "ERROR"}]_vars

MeanOfBestRanked(ranked) ==
    LET best == PySlicePrefix(SortDesc(ranked, "combined_score"), 5)
    IN IF best = <<>> THEN 0
       ELSE SumSeq([i \in 1..Len(best) |-> best[i].combined_score]) \div Len(best)

\* C28: the coverage_score that check_coverage compares with the threshold
\* is the mean of the five highest scores of the ranked results the rerank
\* stage produced (of all when fewer than five), and 0.0 when there are none.
C28_CoverageOfRankedResults ==
    "check_coverage" \in r_todo =>
        research_state.coverage_score
           = MeanOfBestRanked(research_state.ranked_results)

(***************************************************************************)
(* Properties of semantic_diversity_rerank and ensemble_rerank             *)
(***************************************************************************)
\* the result of semantic_diversity_rerank is a greedy selection of count
\* candidates of the call: the index in the input of each returned candidate,
\* and the rule by which each was chosen
IsGreedySelection(count) ==
    LET res == f_call.results
        v == f_result.value
        m == f_call.emb.m
        sel == [k \in 1..Len(v) |->
                  CHOOSE i \in 1..Len(res) : res[i].chunk_id = v[k].chunk_id]
        mmr(i, k) == f_call.dw * res[i].score
                       - (10 - f_call.dw) * SetMax({m[i][sel[j]] : j \in 1..(k - 1)})
        remaining(k) == (1..Len(res)) \ {sel[j] : j \in 1..(k - 1)}
    IN /\ Len(v) = count
       /\ \A k \in 1..Len(v) : \E i \in 1..Len(res) : res[i].chunk_id = v[k].chunk_id
       /\ \A k, l \in 1..Len(v) : k /= l => sel[k] /= sel[l]
       /\ \A k \in 1..Len(v) : v[k].rank = k
       /\ Len(v) >= 1 =>
             \A j \in 1..Len(res) :
                 /\ res[j].score <= res[sel[1]].score
                 /\ j < sel[1] => res[j].score < res[sel[1]].score
       /\ \A k \in 2..Len(v) : \A i \in remaining(k) :
             /\ mmr(i, k) <= mmr(sel[k], k)
             /\ i < sel[k] => mmr(i, k) < mmr(sel[k], k)

\* C29: for every non-empty candidate list and every top_k >= 0,
\* semantic_diversity_rerank returns min(top_k, N) pairwise distinct
\* candidates: the first has the highest primary score, each next one
\* maximises weight*relevance - (1 - weight)*max similarity to the selected
\* ones among the remaining, the earliest in input order on a tie, and the
\* ranks are 1..count in selection order.
C29_DiversitySelectsTopK ==
    (/\ Returned("semantic_diversity_rerank")
     /\ f_call.results /= <<>>
     /\ f_call.top_k >= 0
     /\ f_call.emb.kind = "sims") =>
        IsGreedySelection(Min(f_call.top_k, Len(f_call.results)))

\* C30: for candidates with distinct chunk_ids, ensemble_rerank gives each
\* candidate ensemble_score = the sum over the member strategies of
\* weight * (1 - (rank - 1) / max(len(ranking), 1)), 0 for a ranking that
\* lacks it, and combined_score = 0.5*primary_score + 0.5*ensemble_score,
\* and returns the min(top_k, N) candidates of highest combined_score in
\* non-increasing order with ranks 1..count; the member rankings are those
\* of some outcome of the cross-encoder and of the embedder.
C30_EnsembleScoresAndOrder ==
    (/\ Returned("ensemble_rerank")
     /\ f_result.kind = "return"
     /\ f_call.results /= <<>>
     /\ f_call.top_k >= 0
     /\ \A i, j \in 1..Len(f_call.results) :
           i /= j => f_call.results[i].chunk_id /= f_call.results[j].chunk_id) =>
        \E ce \in CEOutcomes(Len(f_call.results)),
           emb \in EmbOutcomes(Len(f_call.results)) :
           LET res == f_call.results
               v == f_result.value
               members == ranked_results_per_strategy(res, f_call.strategies,
                                                      f_call.weights, ce, emb)
               ens(c) == score_map(members, c)
               combined(r) == (r.score + ens(r.chunk_id)) \div 2
           IN /\ Len(v) = Min(f_call.top_k, Len(res))
              /\ \A k \in 1..Len(v) :
                    /\ v[k].rank = k
                    /\ \E i \in 1..Len(res) : res[i].chunk_id = v[k].chunk_id
                    /\ v[k].rerank_score = ens(v[k].chunk_id)
                    /\ v[k].combined_score
                          = (v[k].primary_score + ens(v[k].chunk_id)) \div 2
                    /\ k > 1 => v[k - 1].combined_score >= v[k].combined_score
              /\ \A k, l \in 1..Len(v) : k /= l => v[k].chunk_id /= v[l].chunk_id
              /\ \A i \in 1..Len(res) :
                    (\A k \in 1..Len(v) : v[k].chunk_id /= res[i].chunk_id) =>
                       \A k \in 1..Len(v) : v[k].combined_score >= combined(res[i])

(***************************************************************************)
(* Properties of the aggregate step                                        *)
(***************************************************************************)
\* the recommendations that come from one analysis result: its first
\* strings, at most three, each under the prefix of its kind
FromResult(recs, prefix, result) ==
    /\ Len(recs) = (IF result.set THEN Min(3, Len(result.items)) ELSE 0)
    /\ \A i \in 1..Len(recs) :
          recs[i] = [prefix |-> prefix, text |-> result.items[i]]

\* C31: aggregate builds recommendations from at most 3 strings of each of
\* the gap, design and pattern outputs, in that order, none from the future
\* directions and none from a null output; sources holds every paper_id of
\* ranked_results once; average_confidence is the mean of the confidence
\* scores of the non-null analysis results, 0.0 when all four are null (the
\* response is modelled by the sum and the number of those scores).
C31_AggregateContents ==
    Returned("aggregate_analysis_node") =>
        LET st == f_call.state
            resp == f_result.value
            recs == resp.recommendations
            fields == {"gap_analysis", "design_suggestions", "pattern_detection",
                       "future_directions"}
            present == {f \in fields : st[f].set}
        IN /\ \E a \in 0..Len(recs) : \E b \in a..Len(recs) :
                 /\ FromResult(SubSeq(recs, 1, a), "Address gap", st.gap_analysis)
                 /\ FromResult(SubSeq(recs, a + 1, b), "Implement",
                               st.design_suggestions)
                 /\ FromResult(SubSeq(recs, b + 1, Len(recs)), "Follow trend",
                               st.pattern_detection)
           /\ resp.sources = {st.ranked_results[i].paper_id :
                                 i \in 1..Len(st.ranked_results)}
           /\ resp.confidence_count = Cardinality(present)
           /\ resp.confidence_sum
                 = (IF st.gap_analysis.set
                    THEN st.gap_analysis.confidence_score ELSE 0)
                 + (IF st.design_suggestions.set
                    THEN st.design_suggestions.confidence_score ELSE 0)
                 + (IF st.pattern_detection.set
                    THEN st.pattern_detection.confidence_score ELSE 0)
                 + (IF st.future_directions.set
                    THEN st.future_directions.confidence_score ELSE 0)
           /\ present = {} => resp.confidence_sum = 0

\* four strings of gaps, a null design output, two trends, and two ranked
\* results of one paper: three gap recommendations, then the two trends
C31_Witness ==
    /\ Returned("aggregate_analysis_node")
    /\ f_call.state.gap_analysis.set
    /\ Len(f_call.state.gap_analysis.items) = 4
    /\ ~f_call.state.design_suggestions.set
    /\ f_call.state.pattern_detection.set
    /\ Len(f_call.state.pattern_detection.items) = 2
    /\ f_call.state.future_directions.set
    /\ Len(f_call.state.ranked_results) = 2
    /\ f_result.value.sources = {"p1"}
    /\ Len(f_result.value.recommendations) = 5
    /\ f_result.value.recommendations[4].prefix = "Follow trend"
    /\ f_result.value.confidence_count = 3

(***************************************************************************)
(* Frame properties of the research nodes                                  *)
(***************************************************************************)
\* a step of the research run in which node n executes
StepOf(n) == n \in r_todo /\ r_runs'[n] = r_runs[n] + 1

\* C32: in a research run ranked_results is changed only by the rerank node
\* and the merge node: retrieve, check_coverage, invoke_mcp (returning or
\* raising), the four analysis nodes and aggregate leave it unchanged; each
\* analysis node writes only its own result field (and error); and merge
\* runs, and reads mcp_results, only after invoke_mcp has returned.
C32_RankedResultsFrame ==
    [][/\ \A n \in ResearchNodes \ {"rerank", "merge_mcp"} :
             StepOf(n) =>
                research_state'.ranked_results = research_state.ranked_results
       /\ \A n \in AnalysisNodes :
             StepOf(n) =>
                \A f \in DOMAIN research_state \ {AnalysisField[n], "error"} :
                    research_state'[f] = research_state[f]
       /\ StepOf("merge_mcp") =>
             /\ r_runs["invoke_mcp"] > 0
             /\ "invoke_mcp" \notin r_todo]_vars

\* the external lookup returned results, merge added one to ranked_results
\* and the four analyses and aggregate ran on the merged list
C32_Witness ==
    /\ ResearchEnded
    /\ r_runs["invoke_mcp"] = 1
    /\ r_runs["merge_mcp"] = 1
    /\ research_state.mcp_results /= <<>>
    /\ \E i \in 1..Len(research_state.ranked_results) :
          research_state.ranked_results[i].source /= "qdrant"
    /\ \A n \in AnalysisNodes : research_state[AnalysisField[n]].set
    /\ research_state.final_response.set
    /\ research_state.final_response.ranked_results_count
          = Len(research_state.ranked_results)

StillRunning(task) == ~Finished(task) /\ ~task.cancelling

\* C40: for every sequence of start and cancel messages on one connection,
\* once a cancel message or the disconnect has been handled (and until the
\* next start) no task started on that connection is still running.
C40_CancelStopsEveryTask ==
    c_event \in {"cancel", "disconnect"} =>
        \A t \in 1..Len(c_tasks) : ~StillRunning(c_tasks[t])

(***************************************************************************)
(* Properties of one and of successive ingestion runs                      *)
(***************************************************************************)
\* C34: within one ingestion run no paper is ingested more than once: the
\* new results handed to the ingest node and the items it loops over hold
\* no two entries with the same arxiv_id, also after a retried search.
C34_NoPaperTwice ==
    /\ i_node = "ingest_pdfs" =>
          \A i, j \in 1..Len(ingestion_state.arxiv_results) :
              i /= j => ingestion_state.arxiv_results[i].arxiv_id
                           /= ingestion_state.arxiv_results[j].arxiv_id
    /\ \A i, j \in 1..Len(items) : i /= j => items[i].arxiv_id /= items[j].arxiv_id

\* the ingest node has run its loop to the end and stored its counters
IngestCompleted ==
    /\ i_node \in {"finalize", "END"}
    /\ Len(i_trace) >= 3
    /\ i_trace[3] = "ingest_pdfs"
    /\ ingestion_state.error = None

\* C35: after the ingest node completes without a node-level error,
\* docs_ingested + docs_failed = docs_new, docs_ingested being the number of
\* documents ingested successfully (one per entry of processed_pdfs).
C35_CountsAddUp ==
    IngestCompleted =>
        /\ ingestion_state.docs_ingested + ingestion_state.docs_failed
              = ingestion_state.docs_new
        /\ ingestion_state.docs_ingested = Len(ingestion_state.processed_pdfs)

\* a later run whose search finds the paper: its duplicate check, on the
\* table as the earlier run left it
LaterDuplicateCheck(paper) ==
    check_duplicates_returns(search_arxiv_returns(IngestionState(1), <<paper>>),
                             papers_table)

\* C36: ingestion is idempotent across runs: a paper the run recorded in
\* processed_pdfs is classified as existing by the duplicate check of a
\* later run that finds the same arxiv_id, and is not ingested again.
C36_ProcessedIsExistingLater ==
    i_node = "END" =>
        \A paper \in Papers :
            (\E k \in 1..Len(ingestion_state.processed_pdfs) :
                 ingestion_state.processed_pdfs[k] = pdf_path(paper))
            => /\ LaterDuplicateCheck(paper).docs_existing = 1
               /\ LaterDuplicateCheck(paper).docs_new = 0
               /\ should_ingest(LaterDuplicateCheck(paper)) = "finalize"

(***************************************************************************)
(* Properties of both workflows                                            *)
(***************************************************************************)
\* C37: in both workflows the error field is sticky: once a node has left
\* it non-null, no later step of the run resets it to null (a later node
\* may replace the message).
C37_ErrorIsSticky ==
    [][/\ ingestion_state.error /= None => ingestion_state'.error /= None
       /\ research_state.error /= None => research_state'.error /= None]_vars

\* the search node failed and the run went on to its end with the error
C37_Witness ==
    /\ i_node = "END"
    /\ Len(i_trace) = 3
    /\ ingestion_state.error = "ArXiv search failed"
    /\ ingestion_state.completed_at /= None

(***************************************************************************)
(* Further properties of the research workflow                             *)
(***************************************************************************)
\* C38: the used_mcp flag of the final response is true exactly when the
\* external gateway was invoked during the run (the coverage decision was
\* to use it and invoke_mcp ran), whatever the invoked tool returned.
C38_UsedMcpIffInvoked ==
    research_state.final_response.set =>
        (research_state.final_response.used_mcp
            <=> (r_runs["invoke_mcp"] > 0 /\ research_state.should_use_mcp))

(***************************************************************************)
(* Further properties of the ranker                                        *)
(***************************************************************************)
\* C39: for every weight list that passes the validation of ensemble_rerank
\* and every candidate list (here: of distinct chunks), whatever the member
\* strategies return, each candidate's ensemble score and combined score
\* lie in [0, 1], the range RankedResult accepts.
C39_EnsembleScoresInRange ==
    (/\ Returned("ensemble_rerank")
     /\ ~BadWeights(f_call)
     /\ \A i, j \in 1..Len(f_call.results) :
           i /= j => f_call.results[i].chunk_id /= f_call.results[j].chunk_id) =>
        \A ce \in CEOutcomes(Len(f_call.results)),
           emb \in EmbOutcomes(Len(f_call.results)) :
           LET members == ranked_results_per_strategy(f_call.results,
                              f_call.strategies, f_call.weights, ce, emb)
           IN \A i \in 1..Len(f_call.results) :
                 LET ens == score_map(members, f_call.results[i].chunk_id)
                     combined == (f_call.results[i].score + ens) \div 2
                 IN /\ 0 <= ens /\ ens <= ScoreOne
                    /\ 0 <= combined /\ combined <= ScoreOne

====
